---- MODULE Spec2Model ----
(***************************************************************************)
(* Model of universal-memory-mcp: the SQLite-backed memory store           *)
(* (src/src/memory-store.ts), the lexical similarity functions             *)
(* (memory-store.ts, ollama-client.ts) and the tool handlers that sit on   *)
(* top of the store (src/src/http-server.ts, src/unnamed/part_003).        *)
(*                                                                         *)
(* Texts are sequences of one-character strings.  A score is kept as the   *)
(* fraction [num, den] the code divides, and compared by cross             *)
(* multiplication, which agrees with the IEEE quotient for these sizes.    *)
(***************************************************************************)
EXTENDS Integers, Sequences, FiniteSets, TLC

\* ------------------------------------------------------------------ bounds
MaxTextLen == 2
MaxIds == 2
MaxClock == 1
MaxBatch == 2

\* ------------------------------------------------------- program constants
DedupThresholdNum == 9
DedupThresholdDen == 10
DedupPrefixLen == 50
DedupCandidateLimit == 5
DefaultImportance == 5
DefaultSearchLimit == 5
DefaultSearchThresholdNum == 1
DefaultSearchThresholdDen == 10
FallbackMinLen == 20
FallbackSliceLen == 200

\* ------------------------------------------------------------------- texts
\* The alphabet of the generated texts: an ASCII letter in both cases, a
\* letter outside ASCII, and white space.
Chars == {"a", "A", "É", " "}

\* JavaScript undefined and SQL NULL; neither is a text over Chars.
Undefined == <<"undefined">>
Null == <<"null">>

TextsOfLen(n) == [1..n -> Chars]
Texts == UNION {TextsOfLen(n) : n \in 0..MaxTextLen}

Frac(n, d) == [num |-> n, den |-> d]
FracGE(x, y) == x.num * y.den >= y.num * x.den
FracGT(x, y) == x.num * y.den > y.num * x.den
FracEQ(x, y) == x.num * y.den = y.num * x.den

Max(x, y) == IF x >= y THEN x ELSE y
Min(x, y) == IF x <= y THEN x ELSE y

\* String.prototype.toLowerCase: folds the letters of every script
LowerChar(c) == IF c = "A" THEN "a" ELSE IF c = "É" THEN "é" ELSE c
ToLowerCase(t) == [i \in 1..Len(t) |-> LowerChar(t[i])]

IsSpace(c) == c = " "

\* String.prototype.split(/\s+/): the pieces between maximal whitespace runs;
\* a leading or trailing run yields an empty piece, and "" yields [""].
SplitWhitespace(t) ==
  LET n == Len(t)
      runEnds == {i \in 1..n : IsSpace(t[i]) /\ (i = n \/ ~IsSpace(t[i + 1]))}
      starts == {1} \cup {i + 1 : i \in runEnds}
      Start(k) == CHOOSE s \in starts : Cardinality({x \in starts : x < s}) = k - 1
      Stop(s) == IF \A i \in s..n : ~IsSpace(t[i]) THEN n
                 ELSE (CHOOSE e \in s..n :
                         IsSpace(t[e]) /\ \A i \in s..(e - 1) : ~IsSpace(t[i])) - 1
  IN  [k \in 1..Cardinality(starts) |-> SubSeq(t, Start(k), Stop(Start(k)))]

\* String.prototype.split(c) for a character c
RECURSIVE SplitOn(_, _)
SplitOn(t, c) ==
  IF c \notin {t[i] : i \in 1..Len(t)} THEN <<t>>
  ELSE LET k == CHOOSE i \in 1..Len(t) : t[i] = c /\ \A j \in 1..(i - 1) : t[j] # c
       IN  <<SubSeq(t, 1, k - 1)>> \o SplitOn(SubSeq(t, k + 1, Len(t)), c)

\* String.prototype.includes
Includes(s, sub) ==
  \E i \in 0..(Len(s) - Len(sub)) : SubSeq(s, i + 1, i + Len(sub)) = sub

\* String.prototype.trim
Trim(t) ==
  LET inked == {i \in 1..Len(t) : ~IsSpace(t[i])}
  IN  IF inked = {} THEN <<>>
      ELSE SubSeq(t, CHOOSE i \in inked : \A j \in inked : i <= j,
                     CHOOSE i \in inked : \A j \in inked : i >= j)

\* String.prototype.slice(0, n)
SliceTo(t, n) == SubSeq(t, 1, Min(n, Len(t)))

\* SQLite's LIKE: % matches any run, _ any one character; the letters of
\* ASCII match without regard to case, every other character only itself.
LikeFold(c) == IF c = "A" THEN "a" ELSE c
\* The pieces of pat between its % signs
LikeSegments(pat) ==
  LET n == Len(pat)
      starts == {1} \cup {i + 1 : i \in {i \in 1..n : pat[i] = "%"}}
      Start(k) == CHOOSE s \in starts : Cardinality({x \in starts : x < s}) = k - 1
      Stop(s) == IF \A i \in s..n : pat[i] # "%" THEN n
                 ELSE (CHOOSE e \in s..n :
                         pat[e] = "%" /\ \A i \in s..(e - 1) : pat[i] # "%") - 1
  IN  [k \in 1..Cardinality(starts) |-> SubSeq(pat, Start(k), Stop(Start(k)))]

\* seg, which holds no %, matches text from position p on
LikeAt(text, seg, p) ==
  /\ p >= 1
  /\ p + Len(seg) - 1 <= Len(text)
  /\ \A k \in 1..Len(seg) :
       seg[k] = "_" \/ LikeFold(seg[k]) = LikeFold(text[p + k - 1])

\* The segments from the k-th on match text from position pos on: the last
\* one at the very end, the others at their leftmost place.
RECURSIVE LikeFrom(_, _, _, _)
LikeFrom(text, segs, k, pos) ==
  IF k = Len(segs)
  THEN LET p == Len(text) - Len(segs[k]) + 1
       IN  p >= pos /\ LikeAt(text, segs[k], p)
  ELSE LET places == {p \in pos..(Len(text) + 1) : LikeAt(text, segs[k], p)}
       IN  /\ places # {}
           /\ LikeFrom(text, segs, k + 1,
                       (CHOOSE p \in places : \A q \in places : p <= q) + Len(segs[k]))

Like(text, pat) ==
  LET segs == LikeSegments(pat)
  IN  IF Len(segs) = 1 THEN Len(text) = Len(pat) /\ LikeAt(text, pat, 1)
      ELSE LikeAt(text, segs[1], 1) /\ LikeFrom(text, segs, 2, Len(segs[1]) + 1)

\* The pattern `%${s}%` the store builds
Wrapped(s) == <<"%">> \o s \o <<"%">>

\* ------------------------------------------------------- similarity engine
\* calculateTextSimilarity: the share of query words that contain, or are
\* contained in, some content word.
CalculateTextSimilarity(text1, text2) ==
  LET query == SplitWhitespace(ToLowerCase(text1))
      content == SplitWhitespace(ToLowerCase(text2))
      matched == {i \in 1..Len(query) :
                    \E j \in 1..Len(content) :
                      \/ Includes(content[j], query[i])
                      \/ Includes(query[i], content[j])}
  IN  IF Len(query) > 0 THEN Frac(Cardinality(matched), Len(query)) ELSE Frac(0, 1)

SeqToSet(s) == {s[i] : i \in 1..Len(s)}

\* simpleTextSimilarity: Jaccard index of the two word sets
SimpleTextSimilarity(text1, text2) ==
  LET words1 == SeqToSet(SplitWhitespace(ToLowerCase(text1)))
      words2 == SeqToSet(SplitWhitespace(ToLowerCase(text2)))
  IN  Frac(Cardinality(words1 \cap words2), Cardinality(words1 \cup words2))

\* ------------------------------------------------------------------- state
VARIABLES
  initialized,   \* db # null: initialize() has opened the database
  closed,        \* close() has closed that connection
  config,        \* what loadConfig() returned: the deduplication flags in it
  dedup,         \* config.deduplication !== false in createMemoryStore
  rows,          \* table memories, in rowid order
  todos,         \* table todos, in rowid order
  nextId,        \* source of fresh ids (generateId)
  clock,         \* wall clock, in seconds of one UTC day
  last,          \* the last call: operation, arguments, outcome, rows before it
  text1, text2,  \* inputs of the scoring functions under test
  sim,           \* their last results
  wire,          \* the server process: "stdio" (index.ts) or "http" (http-server.ts)
  phase,         \* how far the server's startup has come
  probe,         \* outcome of ollama.testConnection() at startup
  pending,       \* the request the server is handling
  running,       \* the run the handler of that request takes (none when idle)
  answered,      \* the last response sent, with its request
  connection,    \* the transaction open on the one database handle, if any
  calls          \* the store calls under way, each at one of its awaits

vars ==
  <<initialized, closed, config, dedup, rows, todos, nextId, clock, last, text1, text2, sim,
    wire, phase, probe, pending, running, answered, connection, calls>>
storeVars == <<initialized, closed, config, dedup, rows, todos, nextId, clock>>
simVars == <<text1, text2, sim>>
asyncVars == <<connection, calls>>
serverVars == <<wire, phase, probe, pending, running, answered>>

General == <<"g", "e", "n", "e", "r", "a", "l">>
Conversation == <<"c", "o", "n", "v", "e", "r", "s", "a", "t", "i", "o", "n">>
Manual == "manual"
AutoExtracted == "auto-extracted"

Has(rec, f) == f \in DOMAIN rec
TextOr(rec, f) == IF Has(rec, f) THEN rec[f] ELSE Undefined
\* JavaScript truthiness of an optional string
Truthy(t) == t # Undefined /\ t # Null /\ t # <<>>
\* a || b on optional strings
OrElse(t, d) == IF Truthy(t) THEN t ELSE d
\* node-sqlite3 binds undefined as NULL
ToSql(v) == IF v = Undefined THEN Null ELSE v

\* Columns of table memories
MemoryColumns ==
  {"id", "content", "original_content", "context", "importance", "timestamp",
   "source", "project", "category", "tags", "embedding", "created_at", "updated_at"}

\* CURRENT_TIMESTAMP is 'YYYY-MM-DD HH:MM:SS', toISOString() is
\* 'YYYY-MM-DDTHH:MM:SS.sssZ'; as strings of the same day every ISO stamp
\* sorts after every SQL stamp.
SqlStamp(t) == [iso |-> 0, t |-> t]
IsoStamp(t) == [iso |-> 1, t |-> t]
StampGT(x, y) == x.iso > y.iso \/ (x.iso = y.iso /\ x.t > y.t)

\* The members of S as a sequence, in rowid order
RECURSIVE Pick(_, _, _)
Pick(rs, S, i) ==
  IF i > Len(rs) THEN <<>>
  ELSE IF rs[i] \in S THEN <<rs[i]>> \o Pick(rs, S, i + 1) ELSE Pick(rs, S, i + 1)

\* All orders in which ORDER BY can deliver the rows s: first holds the pairs
\* <<i, j>> of indexes for which the sort key puts s[i] strictly before s[j];
\* rows with equal keys come in either order.
Orderings(s, first) ==
  LET n == Len(s)
      perms == {p \in [1..n -> 1..n] :
                  /\ \A i, j \in 1..n : i < j => p[i] # p[j]
                  /\ \A i, j \in 1..n : i < j => <<p[j], p[i]>> \notin first}
  IN  {[i \in 1..n |-> s[p[i]]] : p \in perms}

\* LIMIT n; a negative n is no limit
SqlLimit(o, n) == IF n < 0 THEN o ELSE SubSeq(o, 1, Min(n, Len(o)))

RowSet(rs) == {rs[i] : i \in 1..Len(rs)}
RowIds(rs) == {rs[i].id : i \in 1..Len(rs)}
RowById(rs, id) == CHOOSE r \in RowSet(rs) : r.id = id

\* null where a record is expected (ids start at 1)
NoRow == [id |-> 0]

\* getMemoryById
GetMemoryById(rs, id) == IF id \in RowIds(rs) THEN RowById(rs, id) ELSE NoRow

\* ------------------------------------------------------------ store: dedup
\* The outcome of one store call: the table afterwards, whether the call
\* threw, what it returned, and which branch it took.
Outcome(rs, nid, threw, ret, path) ==
  [rows |-> rs, nextId |-> nid, threw |-> threw, ret |-> ret, path |-> path,
   hit |-> NoRow, found |-> <<>>, changed |-> FALSE]
\* ... and the row the duplicate lookup found
WithHit(o, existing) == [o EXCEPT !.hit = existing]
\* ... the list a search returns, the boolean a delete returns
WithFound(o, list) == [o EXCEPT !.found = list]
WithChanged(o, b) == [o EXCEPT !.changed = b]
\* ... and table todos afterwards, for the calls that write it
WithTodos(o, ts) == [f \in DOMAIN o \cup {"todos"} |-> IF f = "todos" THEN ts ELSE o[f]]

\* updateMemory: UPDATE memories SET <key = ?, ...>, updated_at =
\* CURRENT_TIMESTAMP WHERE id = ?.  A key that is no column of the table makes
\* the statement fail to prepare, and db.run rejects.
UpdateMemory(rs, id, updates, now) ==
  IF ~(DOMAIN updates \subseteq MemoryColumns)
  THEN [threw |-> TRUE, rows |-> rs]
  ELSE [threw |-> FALSE,
        rows |-> [i \in 1..Len(rs) |->
                    IF rs[i].id # id THEN rs[i]
                    ELSE [f \in DOMAIN rs[i] |->
                            IF f \in DOMAIN updates THEN updates[f]
                            ELSE IF f = "updated_at" THEN SqlStamp(now)
                            ELSE rs[i][f]]]]

\* The first of the rows o, in order, that scores above the threshold
RECURSIVE FirstSimilar(_, _, _)
FirstSimilar(o, i, content) ==
  IF i > Len(o) THEN NoRow
  ELSE IF FracGT(CalculateTextSimilarity(content, o[i].content),
                 Frac(DedupThresholdNum, DedupThresholdDen))
       THEN o[i]
       ELSE FirstSimilar(o, i + 1, content)

\* A lookup over the rows of every context
FindSimilarMemoryAnyContext(rs, content, context) ==
  LET cand == {r \in RowSet(rs) :
                 Like(r.content, Wrapped(SliceTo(content, DedupPrefixLen)))}
      found == Pick(rs, cand, 1)
      newerFirst == {ij \in (1..Len(found)) \X (1..Len(found)) :
                       StampGT(found[ij[1]].created_at, found[ij[2]].created_at)}
  IN  {FirstSimilar(SqlLimit(o, DedupCandidateLimit), 1, content) :
         o \in Orderings(found, newerFirst)}

\* findSimilarMemory: what the lookup can return (NoRow or a row).  The rows
\* of the context whose content is LIKE the first 50 characters of the new
\* content, newest first, at most 5, scored in that order.
FindSimilarMemory(rs, content, context) ==
  LET cand == {r \in RowSet(rs) :
                 /\ r.context = context
                 /\ Like(r.content, Wrapped(SliceTo(content, DedupPrefixLen)))}
      found == Pick(rs, cand, 1)
      newerFirst == {ij \in (1..Len(found)) \X (1..Len(found)) :
                       StampGT(found[ij[1]].created_at, found[ij[2]].created_at)}
  IN  {FirstSimilar(SqlLimit(o, DedupCandidateLimit), 1, content) :
         o \in Orderings(found, newerFirst)}

\* A row without a timestamp (SQL NULL in an integer-valued column)
NullStamp == 0 - 1

\* id TEXT PRIMARY KEY: an INSERT with the id of a row of the table fails
KeyTaken(table, id) == id \in RowIds(table)

\* content TEXT NOT NULL, timestamp TEXT NOT NULL
NotNullViolated(row) == row.content = Null \/ row.timestamp = NullStamp

\* The row INSERT INTO memories writes in addMemory; created_at and
\* updated_at take the column default CURRENT_TIMESTAMP.
NewMemoryRow(id, data, now) ==
  [id |-> id,
   content |-> ToSql(TextOr(data, "content")),
   original_content |-> ToSql(TextOr(data, "originalContent")),
   context |-> IF Has(data, "context") THEN data.context ELSE General,
   importance |-> IF Has(data, "importance") THEN data.importance ELSE DefaultImportance,
   timestamp |-> IF Has(data, "timestamp") THEN data.timestamp ELSE NullStamp,
   source |-> IF Has(data, "source") THEN data.source ELSE Manual,
   project |-> ToSql(TextOr(data, "project")),
   category |-> ToSql(TextOr(data, "category")),
   tags |-> ToSql(TextOr(data, "tags")),
   created_at |-> SqlStamp(now),
   updated_at |-> SqlStamp(now)]

\* What a store call hands back of a record
Returned(r) ==
  [id |-> r.id, content |-> r.content, context |-> r.context,
   importance |-> r.importance, source |-> r.source]

\* addMemory: the outcomes of one call (one per order the lookup may see)
AddMemory(rs, nid, data, now, dedupOn) ==
  LET row == NewMemoryRow(nid, data, now)
      Insert ==
        IF NotNullViolated(row) \/ KeyTaken(rs, row.id)
        THEN Outcome(rs, nid, TRUE, NoRow, "insert-failed")
        ELSE Outcome(Append(rs, row), nid + 1, FALSE, Returned(row), "inserted")
      Merge(existing) ==
        LET u == UpdateMemory(rs, existing.id,
                   [content |-> row.content,
                    importance |-> Max(existing.importance, row.importance),
                    updatedAt |-> IsoStamp(now)], now)
        IN  IF u.threw
            THEN WithHit(Outcome(rs, nid, TRUE, NoRow, "merge-failed"), existing)
            ELSE WithHit(Outcome(u.rows, nid, FALSE,
                           [Returned(existing) EXCEPT !.content = row.content,
                                                      !.importance = row.importance],
                           "merged"), existing)
  IN  IF ~dedupOn THEN {Insert}
      ELSE IF row.content = Null
      \* content.slice on undefined is a TypeError
      THEN {Outcome(rs, nid, TRUE, NoRow, "insert-failed")}
      ELSE {IF e = NoRow THEN Insert ELSE Merge(e) :
              e \in FindSimilarMemory(rs, row.content, row.context)}

\* ------------------------------------------------------ store: bank, delete
\* The row INSERT INTO memories writes in updateMemoryBank
BankRow(id, project, category, memory, now) ==
  [id |-> id,
   content |-> ToSql(TextOr(memory, "content")),
   original_content |-> Null,
   context |-> OrElse(category, General),
   importance |-> IF Has(memory, "importance") /\ memory.importance # 0
                  THEN memory.importance ELSE DefaultImportance,
   timestamp |-> now,
   source |-> Manual,
   project |-> ToSql(project),
   category |-> ToSql(category),
   tags |-> ToSql(TextOr(memory, "tags")),
   created_at |-> IsoStamp(now),
   updated_at |-> IsoStamp(now)]

\* The loop of updateMemoryBank from element i on: the table after the
\* inserts that succeeded, and the index of the element whose insert failed
\* (0 when none did).  content TEXT NOT NULL rejects an element without content.
RECURSIVE BankInserts(_, _, _, _, _, _, _)
BankInserts(rs, nid, project, category, memories, i, now) ==
  IF i > Len(memories) THEN [rows |-> rs, nextId |-> nid, failedAt |-> 0]
  ELSE LET row == BankRow(nid, project, category, memories[i], now)
       IN  IF NotNullViolated(row) \/ KeyTaken(rs, row.id)
           THEN [rows |-> rs, nextId |-> nid, failedAt |-> i]
           ELSE BankInserts(Append(rs, row), nid + 1, project, category,
                            memories, i + 1, now)

UpdateMemoryBankNoRollback(rs, nid, project, category, memories, now) ==
  LET done == BankInserts(rs, nid, project, category, memories, 1, now)
  IN  IF done.failedAt = 0
      THEN Outcome(done.rows, done.nextId, FALSE, NoRow, "committed")
      ELSE Outcome(done.rows, done.nextId, TRUE, NoRow, "rolled-back")

\* updateMemoryBank: BEGIN TRANSACTION, the inserts, COMMIT; a failed insert
\* is caught, the transaction rolled back and the error rethrown.
UpdateMemoryBank(rs, nid, project, category, memories, now) ==
  LET done == BankInserts(rs, nid, project, category, memories, 1, now)
  IN  IF done.failedAt = 0
      THEN Outcome(done.rows, done.nextId, FALSE, NoRow, "committed")
      ELSE Outcome(rs, nid, TRUE, NoRow, "rolled-back")

\* A deleteMemory that reports true whether or not a row went
DeleteMemoryAlwaysTrue(rs, nid, id) ==
  WithChanged(Outcome(SelectSeq(rs, LAMBDA r : r.id # id), nid, FALSE, NoRow, "deleted"),
              TRUE)

\* deleteMemory: DELETE FROM memories WHERE id = ?; true when a row went
DeleteMemory(rs, nid, id) ==
  LET keep == {i \in 1..Len(rs) : rs[i].id # id}
      RECURSIVE Kept(_)
      Kept(i) == IF i > Len(rs) THEN <<>>
                 ELSE IF i \in keep THEN <<rs[i]>> \o Kept(i + 1) ELSE Kept(i + 1)
  IN  WithChanged(Outcome(Kept(1), nid, FALSE, NoRow, "deleted"),
                  Cardinality(keep) < Len(rs))

\* ----------------------------------------------------------- store: search
\* Array.prototype.sort((a, b) => b.similarity - a.similarity): stable,
\* highest score first
RECURSIVE SortBySimilarity(_)
SortBySimilarity(s) ==
  IF s = <<>> THEN <<>>
  ELSE LET k == CHOOSE i \in 1..Len(s) :
                  /\ \A j \in 1..Len(s) : ~FracGT(s[j].similarity, s[i].similarity)
                  /\ \A j \in 1..(i - 1) : FracGT(s[i].similarity, s[j].similarity)
       IN  <<s[k]>> \o SortBySimilarity(SubSeq(s, 1, k - 1) \o SubSeq(s, k + 1, Len(s)))

Scored(r, query) ==
  [id |-> r.id, content |-> r.content, context |-> r.context,
   importance |-> r.importance,
   similarity |-> CalculateTextSimilarity(query, r.content)]

SearchMemoriesUnsorted(rs, query, options) ==
  LET limit == IF Has(options, "limit") THEN options.limit ELSE DefaultSearchLimit
      context == TextOr(options, "context")
      threshold == IF Has(options, "threshold") THEN options.threshold
                   ELSE Frac(DefaultSearchThresholdNum, DefaultSearchThresholdDen)
      queryWords == SplitWhitespace(ToLowerCase(query))
      cand == {r \in RowSet(rs) :
                 /\ Truthy(context) => r.context = context
                 /\ \E w \in 1..Len(queryWords) : Like(r.content, Wrapped(queryWords[w]))}
      matched == Pick(rs, cand, 1)
      first == {ij \in (1..Len(matched)) \X (1..Len(matched)) :
                  LET x == matched[ij[1]]
                      y == matched[ij[2]]
                  IN  \/ x.importance > y.importance
                      \/ /\ x.importance = y.importance
                         /\ StampGT(x.created_at, y.created_at)}
      Found(o) ==
        LET got == SqlLimit(o, limit)
            scored == [i \in 1..Len(got) |-> Scored(got[i], query)]
            AtLeast(m) == FracGE(m.similarity, threshold)
        IN  SelectSeq(scored, AtLeast)
  IN  {Found(o) : o \in Orderings(matched, first)}

\* searchMemories: the result lists one call can return (one per order in
\* which ORDER BY importance DESC, created_at DESC may deliver equal keys)
SearchMemories(rs, query, options) ==
  LET limit == IF Has(options, "limit") THEN options.limit ELSE DefaultSearchLimit
      context == TextOr(options, "context")
      threshold == IF Has(options, "threshold") THEN options.threshold
                   ELSE Frac(DefaultSearchThresholdNum, DefaultSearchThresholdDen)
      queryWords == SplitWhitespace(ToLowerCase(query))
      cand == {r \in RowSet(rs) :
                 /\ Truthy(context) => r.context = context
                 /\ \E w \in 1..Len(queryWords) : Like(r.content, Wrapped(queryWords[w]))}
      matched == Pick(rs, cand, 1)
      first == {ij \in (1..Len(matched)) \X (1..Len(matched)) :
                  LET x == matched[ij[1]]
                      y == matched[ij[2]]
                  IN  \/ x.importance > y.importance
                      \/ /\ x.importance = y.importance
                         /\ StampGT(x.created_at, y.created_at)}
      Found(o) ==
        LET got == SqlLimit(o, limit)
            scored == [i \in 1..Len(got) |-> Scored(got[i], query)]
            AtLeast(m) == FracGE(m.similarity, threshold)
        IN  SortBySimilarity(SelectSeq(scored, AtLeast))
  IN  {Found(o) : o \in Orderings(matched, first)}

\* ------------------------------------------------------------ store: reads
DefaultGetLimit == 10

\* The pairs of indexes of s whose first row was created later than the second
NewerFirst(s) ==
  {ij \in (1..Len(s)) \X (1..Len(s)) : StampGT(s[ij[1]].created_at, s[ij[2]].created_at)}

\* getMemories: the lists one call can return.  The rows of the context (when
\* one is given) stamped at or after since (when given), ORDER BY created_at
\* DESC LIMIT limit.
GetMemories(rs, options) ==
  LET limit == IF Has(options, "limit") THEN options.limit ELSE DefaultGetLimit
      context == TextOr(options, "context")
      cand == {r \in RowSet(rs) :
                 /\ Truthy(context) => r.context = context
                 /\ Has(options, "since") => r.timestamp >= options.since}
      matched == Pick(rs, cand, 1)
  IN  {SqlLimit(o, limit) : o \in Orderings(matched, NewerFirst(matched))}

\* getStats: COUNT(*), COUNT(DISTINCT context), and the count of each context
GetStats(rs) ==
  LET contexts == {r.context : r \in RowSet(rs)}
  IN  [totalMemories |-> Len(rs),
       uniqueContexts |-> Cardinality(contexts),
       contexts |-> {[context |-> c,
                      count |-> Cardinality({i \in 1..Len(rs) : rs[i].context = c})] :
                       c \in contexts}]

\* listProjects: the lists one call can return.  One entry per project that
\* is not NULL, with its row count and its latest updated_at (MAX of the
\* column, a text), ORDER BY last_updated DESC.  The categories are
\* GROUP_CONCAT(DISTINCT category), which joins those that are not NULL with
\* commas, taken apart again by split(',').filter(Boolean).
ListProjects(rs) ==
  LET firsts == {rs[i] : i \in {k \in 1..Len(rs) :
                                  /\ rs[k].project # Null
                                  /\ \A j \in 1..(k - 1) : rs[j].project # rs[k].project}}
      heads == Pick(rs, firsts, 1)
      Of(p) == {x \in RowSet(rs) : x.project = p}
      Latest(p) == (CHOOSE x \in Of(p) :
                      \A y \in Of(p) : ~StampGT(y.updated_at, x.updated_at)).updated_at
      entries == [k \in 1..Len(heads) |->
                    [project |-> heads[k].project,
                     totalMemories |->
                       Cardinality({i \in 1..Len(rs) : rs[i].project = heads[k].project}),
                     categories |->
                       UNION {{SplitOn(c, ",")[n] : n \in 1..Len(SplitOn(c, ","))} :
                                c \in {x.category : x \in Of(heads[k].project)} \ {Null}}
                         \ {<<>>},
                     lastUpdated |-> Latest(heads[k].project)]]
      later == {ij \in (1..Len(entries)) \X (1..Len(entries)) :
                  StampGT(entries[ij[1]].lastUpdated, entries[ij[2]].lastUpdated)}
  IN  Orderings(entries, later)

\* listProjectFiles: SELECT DISTINCT category WHERE project = ? AND category
\* IS NOT NULL
ListProjectFiles(rs, project) ==
  {r.category : r \in {x \in RowSet(rs) : x.project = project}} \ {Null}

\* An exportMemoryBank that takes no notice of the filter
ExportMemoryBankUnfiltered(rs, project, category) ==
  Orderings(rs, NewerFirst(rs))

\* exportMemoryBank: the lists one call can return.  The rows of the project
\* and of the category (each when truthy), ORDER BY created_at DESC.
ExportMemoryBank(rs, project, category) ==
  LET cand == {r \in RowSet(rs) :
                 /\ Truthy(project) => r.project = project
                 /\ Truthy(category) => r.category = category}
      matched == Pick(rs, cand, 1)
  IN  Orderings(matched, NewerFirst(matched))

\* exportMemoryBank, rawMemories.map: the record made of a row.  The tags
\* column holds JSON.stringify(tags) or NULL and is kept here as the array
\* it encodes; JSON.parse gives the array back, a NULL column gives undefined.
ToStoredMemory(m) ==
  [id |-> m.id,
   content |-> m.content,
   originalContent |-> m.original_content,
   context |-> m.context,
   importance |-> m.importance,
   timestamp |-> m.timestamp,
   source |-> m.source,
   project |-> m.project,
   category |-> m.category,
   tags |-> IF m.tags # Null THEN m.tags ELSE Undefined,
   createdAt |-> m.created_at,
   updatedAt |-> m.updated_at]

\* exportMemoryBank, what it returns for the rows its query delivered
MemoryBankExport(project, category, format, found, now) ==
  [project |-> project, category |-> category, format |-> format,
   exportedAt |-> IsoStamp(now),
   memories |-> [i \in 1..Len(found) |-> ToStoredMemory(found[i])]]

\* JSON.stringify of an object: the members whose value is undefined are
\* left out, null is written as null
JsonMembers(rec, optional) ==
  [f \in {g \in DOMAIN rec : ~(g \in optional /\ rec[g] = Undefined)} |-> rec[f]]
\* JSON.stringify(exportData, null, 2): the document
JsonStringify(exportData) ==
  [json |->
     JsonMembers([exportData EXCEPT !.memories =
                    [i \in 1..Len(exportData.memories) |->
                       JsonMembers(exportData.memories[i], {"tags"})]],
                 {"project", "category"})]
\* JSON.parse of a document
JsonParse(doc) == doc.json

\* ------------------------------------------------------------ store: todos
Pending == "pending"
Medium == "medium"

\* a || d on an optional enumerated string
StrOr(rec, f, d) == IF Has(rec, f) /\ rec[f] # "" THEN rec[f] ELSE d
\* a || null on an optional text
TextOrNull(rec, f) == IF Truthy(TextOr(rec, f)) THEN rec[f] ELSE Null

\* The row INSERT INTO todos writes in addTodo
NewTodoRow(id, todoData, now) ==
  [id |-> id,
   content |-> ToSql(TextOr(todoData, "content")),
   status |-> StrOr(todoData, "status", Pending),
   priority |-> StrOr(todoData, "priority", Medium),
   project |-> TextOrNull(todoData, "project"),
   context |-> TextOrNull(todoData, "context"),
   created_at |-> IsoStamp(now),
   updated_at |-> IsoStamp(now)]

\* getTodoById
GetTodoById(ts, id) == IF id \in RowIds(ts) THEN RowById(ts, id) ELSE NoRow

\* An addTodo into a table without a key
AddTodoUnkeyed(rs, ts, nid, todoData, now) ==
  LET row == NewTodoRow(nid, todoData, now)
  IN  IF row.content = Null
      THEN WithTodos(Outcome(rs, nid, TRUE, NoRow, "insert-failed"), ts)
      ELSE WithTodos(Outcome(rs, nid + 1, FALSE, row, "todo-added"), Append(ts, row))

\* addTodo: content TEXT NOT NULL rejects a todo without content, id TEXT
\* PRIMARY KEY one whose id is taken
AddTodo(rs, ts, nid, todoData, now) ==
  LET row == NewTodoRow(nid, todoData, now)
  IN  IF row.content = Null \/ KeyTaken(ts, row.id)
      THEN WithTodos(Outcome(rs, nid, TRUE, NoRow, "insert-failed"), ts)
      ELSE WithTodos(Outcome(rs, nid + 1, FALSE, row, "todo-added"), Append(ts, row))

\* listTodos: the lists one call can return.  The todos that match every
\* filter given (a falsy one is no filter), ORDER BY created_at DESC, LIMIT
\* only for a limit that is not 0.
ListTodos(ts, options) ==
  LET cand == {t \in RowSet(ts) :
                 /\ StrOr(options, "status", t.status) = t.status
                 /\ StrOr(options, "priority", t.priority) = t.priority
                 /\ Truthy(TextOr(options, "project")) => t.project = options.project
                 /\ Truthy(TextOr(options, "context")) => t.context = options.context}
      matched == Pick(ts, cand, 1)
      limit == IF Has(options, "limit") /\ options.limit # 0 THEN options.limit
               ELSE 0 - 1
  IN  {SqlLimit(o, limit) : o \in Orderings(matched, NewerFirst(matched))}

\* An updateTodo whose statement writes the todo anew when no row has the id
UpdateTodoUpserting(rs, ts, nid, id, updates, now) ==
  WithTodos(Outcome(rs, nid, FALSE, NoRow, "todo-updated"),
            IF id \in RowIds(ts) THEN ts ELSE Append(ts, NewTodoRow(id, updates, now)))

\* An updateTodo that rejects an id that is not stored instead of returning null
UpdateTodoRejecting(rs, ts, nid, id, updates, now) ==
  WithTodos(Outcome(rs, nid, GetTodoById(ts, id) = NoRow, NoRow, "todo-absent"), ts)

\* updateTodo: null for an id that is not stored; else UPDATE todos SET the
\* fields that are not undefined and updated_at, and the row read back
UpdateTodo(rs, ts, nid, id, updates, now) ==
  IF GetTodoById(ts, id) = NoRow
  THEN WithTodos(Outcome(rs, nid, FALSE, NoRow, "todo-absent"), ts)
  ELSE LET Set(t, f) ==
             IF ~Has(updates, f) THEN t[f]
             ELSE IF f \in {"project", "context"} THEN TextOrNull(updates, f)
             ELSE updates[f]
           after == [i \in 1..Len(ts) |->
                       IF ts[i].id # id THEN ts[i]
                       ELSE [f \in DOMAIN ts[i] |->
                               IF f = "updated_at" THEN IsoStamp(now)
                               ELSE IF f \in {"id", "created_at"} THEN ts[i][f]
                               ELSE Set(ts[i], f)]]
       IN  WithTodos(Outcome(rs, nid, FALSE, GetTodoById(after, id), "todo-updated"),
                     after)

\* deleteTodo: DELETE FROM todos WHERE id = ?; true when a row went
DeleteTodo(rs, ts, nid, id) ==
  LET keep == {t \in RowSet(ts) : t.id # id}
  IN  WithChanged(WithTodos(Outcome(rs, nid, FALSE, NoRow, "todo-deleted"),
                            Pick(ts, keep, 1)),
                  keep # RowSet(ts))

\* ------------------------------------------------------------- tool layer
\* {...rec, [f]: v}
Put(rec, f, v) == [g \in DOMAIN rec \cup {f} |-> IF g = f THEN v ELSE rec[g]]

\* String.prototype.replace with a string pattern: the first occurrence only
RECURSIVE ReplaceFirst(_, _, _)
ReplaceFirst(t, c, by) ==
  IF t = <<>> THEN <<>>
  ELSE IF Head(t) = c THEN <<by>> \o Tail(t)
  ELSE <<Head(t)>> \o ReplaceFirst(Tail(t), c, by)

RepoPrefix == <<"r", "e", "p", "o", "-">>
Ellipsis == <<".", ".", ".">>
MinImportance == 1
MaxImportance == 10

\* enhanceMemoryWithRepoInfo: repository tags appended, project and context
\* taken from the repository when the record has none of its own
EnhanceMemoryWithRepoInfo(memoryData, repoInfo) ==
  LET tagged ==
        IF repoInfo.isGitRepo /\ Len(repoInfo.tags) > 0
        THEN Put(memoryData, "tags",
                 (IF Has(memoryData, "tags") THEN memoryData.tags ELSE <<>>)
                   \o repoInfo.tags)
        ELSE memoryData
      named ==
        IF ~Truthy(TextOr(tagged, "project")) /\ Truthy(repoInfo.repoName)
        THEN Put(tagged, "project", repoInfo.repoName)
        ELSE tagged
  IN  IF (~Truthy(TextOr(named, "context")) \/ named.context = General)
           /\ Truthy(repoInfo.repoName)
      THEN Put(named, "context", RepoPrefix \o ReplaceFirst(repoInfo.repoName, "/", "-"))
      ELSE named

\* handleAddMemory: the record handed to addMemory.  enhancedContent is the
\* content itself or what ollama.enhanceMemory made of it; only the HTTP
\* bridge adds the repository information.
HandleAddMemoryData(transport, args, enhancedContent, repoInfo, now) ==
  LET Passed(rec, f) == IF Has(args, f) THEN Put(rec, f, args[f]) ELSE rec
      memoryData ==
        Passed(Passed(Passed(
          [content |-> enhancedContent,
           originalContent |-> TextOr(args, "content"),
           context |-> OrElse(TextOr(args, "context"), General),
           importance |-> IF Has(args, "importance") THEN args.importance
                          ELSE DefaultImportance,
           timestamp |-> now,
           source |-> Manual], "project"), "category"), "tags")
  IN  IF transport = "http" THEN EnhanceMemoryWithRepoInfo(memoryData, repoInfo)
      ELSE memoryData

\* An ollama.enhanceMemory that hands on whatever became of the reply
OllamaEnhanceMemoryUnguarded(content, reply) ==
  IF reply.kind = "ok" THEN Trim(reply.text) ELSE Undefined

\* ollama.enhanceMemory: the trimmed response field of the model's reply; the
\* content itself when the request fails (kind "network"), the status is not
\* OK ("status"), the body is not JSON ("not-json") or holds no response
\* string ("no-response"): each of these throws inside the try block.
OllamaEnhanceMemory(content, reply) ==
  IF reply.kind = "ok" THEN Trim(reply.text) ELSE content

\* ollama.extractMemories: the candidates of the model's reply, cleaned; when
\* the reply cannot be had or parsed, one candidate made of the text itself
\* if the text is long enough.
OllamaExtractMemories(text, context, reply) ==
  IF reply.ok
  THEN LET Valid(m) == Has(m, "content") /\ Len(Trim(m.content)) > 0
           kept == SelectSeq(reply.memories, Valid)
       IN  [i \in 1..Len(kept) |->
              [content |-> Trim(kept[i].content),
               context |-> OrElse(TextOr(kept[i], "context"), context),
               importance |->
                 Min(Max(IF Has(kept[i], "importance") /\ kept[i].importance # 0
                         THEN kept[i].importance ELSE DefaultImportance,
                         MinImportance), MaxImportance)]]
  ELSE IF Len(Trim(text)) > FallbackMinLen
       THEN <<[content |-> SliceTo(text, FallbackSliceLen)
                             \o (IF Len(text) > FallbackSliceLen THEN Ellipsis ELSE <<>>),
               context |-> context,
               importance |-> DefaultImportance]>>
       ELSE <<>>

\* handleExtractMemories, the loop: addMemory for each fact from the i-th on;
\* a call that throws ends the handler and leaves the earlier rows stored.
RECURSIVE HandleExtractMemories(_, _, _, _, _, _, _)
HandleExtractMemories(rs, nid, extractedFacts, context, i, now, dedupOn) ==
  IF i > Len(extractedFacts) THEN {Outcome(rs, nid, FALSE, NoRow, "extracted")}
  ELSE LET fact == extractedFacts[i]
           memoryData ==
             [content |-> fact.content,
              context |-> OrElse(fact.context, context),
              importance |-> IF fact.importance # 0 THEN fact.importance
                             ELSE DefaultImportance,
              timestamp |-> now,
              source |-> AutoExtracted]
       IN  UNION {IF o.threw THEN {o}
                  ELSE HandleExtractMemories(o.rows, o.nextId, extractedFacts,
                                             context, i + 1, now, dedupOn) :
                  o \in AddMemory(rs, nid, memoryData, now, dedupOn)}

\* ------------------------------------------------------------------ inputs
NoSim == [coverage |-> Frac(0, 1), jaccard |-> Frac(0, 1), applied |-> FALSE]
NoCall ==
  [op |-> "none", args |-> [none |-> TRUE], threw |-> FALSE, ret |-> NoRow,
   path |-> "none", hit |-> NoRow, found |-> <<>>, changed |-> FALSE,
   before |-> <<>>, todosBefore |-> <<>>]

Db == <<"d", "b">>
Proj == <<"p">>
\* A text as long as the dedup prefix, and the same text with a word added
LongA == [i \in 1..DedupPrefixLen |-> "a"]
LongAB == LongA \o <<" ", "b">>
Contents == {<<"a", " ", "b">>, <<"b", " ", "a">>}
Importances == {3, 7}

AddInputs ==
  {[content |-> c, importance |-> i] : c \in Contents, i \in Importances}
  \cup {[content |-> <<"a", " ", "b">>, context |-> Db, importance |-> 3],
        [content |-> LongA, importance |-> 3],
        [content |-> LongAB, importance |-> 3]}

BankElements == {[content |-> <<"a">>, importance |-> 7], [importance |-> 3]}
Batches == UNION {[1..n -> BankElements] : n \in 0..MaxBatch}

Limits == {1, 2}
SearchInputs ==
  {[query |-> <<"A", " ", "b">>, options |-> [limit |-> l]] : l \in Limits}
  \cup {[query |-> <<"A", " ", "b">>, options |-> [threshold |-> Frac(1, 1)]],
        [query |-> <<"a", "_">>, options |-> [limit |-> 2, context |-> Db]],
        [query |-> <<"a", "_">>, options |-> [context |-> <<>>, threshold |-> Frac(1, 2)]]}

\* Tool arguments: importance inside and outside 1..10 or absent; context
\* given, empty or absent
Transports == {"stdio", "http"}
ToolAddInputs ==
  {[content |-> <<"a", " ", "b">>],
   [content |-> <<"a", " ", "b">>, importance |-> 11, context |-> <<>>],
   [content |-> <<"b">>, importance |-> 0, context |-> Db]}
\* What the language model answers to the enhancement prompt
LlmReplies == {<<"b", " ">>}
\* What comes back to the enhancement request: no connection, a status that
\* is not OK, a body that is not JSON or has no response string, or a reply
EnhanceReplies ==
  {[kind |-> k, text |-> <<>>] : k \in {"network", "status", "not-json", "no-response"}}
    \cup {[kind |-> "ok", text |-> t] : t \in LlmReplies}
\* detectRepositoryInfo() of the server's working directory
NoRepo == [isGitRepo |-> FALSE, repoName |-> Undefined, tags |-> <<>>]
RepoInfos ==
  {NoRepo,
   [isGitRepo |-> TRUE, repoName |-> <<"o", "/", "r">>,
    tags |-> <<"repo:o-r", "git-repo">>]}
\* The shortest text the fallback extraction keeps
Keepable == [i \in 1..(FallbackMinLen + 1) |-> "a"]
ExtractInputs ==
  {[text |-> Keepable, context |-> <<>>],
   [text |-> <<"a", " ", "b">>, context |-> Db],
   [text |-> Keepable]}
\* What the language model answers to the extraction prompt: nothing usable,
\* or a list of candidates
ExtractReplies ==
  {[ok |-> FALSE, memories |-> <<>>],
   [ok |-> TRUE,
    memories |-> <<[content |-> <<"a", " ">>, importance |-> 11], [content |-> <<" ">>]>>],
   [ok |-> TRUE,
    memories |-> <<[content |-> <<"b">>, context |-> Db, importance |-> 0],
                   [content |-> <<"a">>, importance |-> 0 - 3]>>]}
ToolBankInputs ==
  {[project |-> Proj, memories |-> <<[content |-> <<"a">>, importance |-> 11]>>],
   [project |-> Proj, category |-> <<>>,
    memories |-> <<[content |-> <<"a">>, importance |-> 0], [content |-> <<"b">>]>>],
   [project |-> Proj, category |-> Db, memories |-> <<[content |-> <<"b">>]>>]}

Nows == {n \in {clock, clock + 1} : n <= MaxClock}

\* No request is being handled, none has been answered
NoRequest == [method |-> "none", name |-> "none", args |-> [none |-> TRUE]]
\* The text of a result, by its template and the values put into it; the
\* message of an error, by its wording, the tool named and the message wrapped
Text(template, id, body, count) ==
  [template |-> template, id |-> id, body |-> body, count |-> count]
Message(wording, name, cause) == [wording |-> wording, name |-> name, cause |-> cause]
NoText == Text("none", 0, <<>>, 0)
NoMessage == Message("none", "none", "none")
NoEnv ==
  [repoInfo |-> NoRepo, enhanced |-> [kind |-> "network", text |-> <<>>],
   extracted |-> [ok |-> FALSE, memories |-> <<>>]]
NoReply ==
  [request |-> NoRequest, kind |-> "none", error |-> "none", code |-> 0,
   message |-> NoMessage, text |-> NoText, tools |-> <<>>, handler |-> "none",
   sent |-> 0, before |-> <<>>, todosBefore |-> <<>>, nextIdBefore |-> 0,
   now |-> 0, env |-> NoEnv, stored |-> NoRow, threw |-> FALSE, cause |-> "none"]

\* The server process has not been started
\* No call is under way and no transaction open
NoTransaction == [open |-> FALSE, rows |-> <<>>, todos |-> <<>>]
Idle == connection = NoTransaction /\ calls = <<>>

ServerDown ==
  /\ wire = "stdio"
  /\ phase = "down"
  /\ probe = "none"
  /\ pending = NoRequest
  /\ running = {}
  /\ answered = NoReply

\* ------------------------------------------------------------ configuration
\* getDefaultConfig, and config/default.json as it is shipped: the storage
\* section has no deduplication member, the processing section has it true
DefaultConfig ==
  [memoryStorage |-> [type |-> "sqlite"], processing |-> [deduplication |-> TRUE]]
\* The configurations config/default.json can hold
Configs ==
  {[memoryStorage |-> m, processing |-> [deduplication |-> p]] :
     m \in {[type |-> "sqlite"]}
            \cup {[type |-> "sqlite", deduplication |-> d] : d \in BOOLEAN},
     p \in BOOLEAN}
\* createMemoryStore(config.memoryStorage), addMemory: the duplicate lookup
\* runs if (config.deduplication !== false)
StoreDeduplicates(storage) ==
  ~(Has(storage, "deduplication") /\ storage.deduplication = FALSE)

\* ------------------------------------------------------------- store calls
\* A store call: every operation starts with
\* if (!db) throw new Error('Database not initialized')
Call(op, args, outs, now) ==
  IF ~initialized
  THEN /\ last' = [NoCall EXCEPT !.op = op, !.args = args, !.threw = TRUE,
                                 !.path = "not-initialized", !.before = rows,
                                 !.todosBefore = todos]
       /\ UNCHANGED storeVars
  ELSE IF closed
  \* the sqlite3 driver refuses a statement on a closed handle
  THEN /\ last' = [NoCall EXCEPT !.op = op, !.args = args, !.threw = TRUE,
                                 !.path = "closed", !.before = rows,
                                 !.todosBefore = todos]
       /\ UNCHANGED storeVars
  ELSE \E o \in outs :
         LET ts == IF Has(o, "todos") THEN o.todos ELSE todos
         IN  /\ rows' = o.rows
             /\ todos' = ts
             /\ nextId' = o.nextId
             /\ clock' = IF o.rows # rows \/ ts # todos THEN now ELSE clock
             /\ last' = [op |-> op, args |-> args, threw |-> o.threw, ret |-> o.ret,
                         path |-> o.path, hit |-> o.hit, found |-> o.found,
                         changed |-> o.changed, before |-> rows,
                         todosBefore |-> todos]
             /\ UNCHANGED <<initialized, closed, config, dedup>>

Initialize ==
  /\ ~initialized
  /\ initialized' = TRUE
  /\ last' = [NoCall EXCEPT !.op = "initialize"]
  /\ UNCHANGED <<closed, config, dedup, rows, todos, nextId, clock, simVars, asyncVars, serverVars>>

\* addMemory with the record one of inputs, stamped by the caller
AddMemoryWith(inputs) ==
  \E in \in inputs, now \in Nows :
    LET data == Put(in, "timestamp", now)
    IN  /\ Call("addMemory", data, AddMemory(rows, nextId, data, now, dedup), now)
        /\ UNCHANGED <<simVars, asyncVars, serverVars>>

AddMemoryCall == nextId <= MaxIds /\ AddMemoryWith(AddInputs)

UpdateMemoryBankCall ==
  \E category \in {Db}, memories \in Batches, now \in Nows :
    /\ nextId + Len(memories) <= MaxIds + 1
    /\ Call("updateMemoryBank",
            [project |-> Proj, category |-> category, memories |-> memories],
            {UpdateMemoryBank(rows, nextId, Proj, category, memories, now)}, now)
    /\ UNCHANGED <<simVars, asyncVars, serverVars>>

DeleteMemoryCall ==
  \E id \in 1..MaxIds :
    /\ Call("deleteMemory", [id |-> id], {DeleteMemory(rows, nextId, id)}, clock)
    /\ UNCHANGED <<simVars, asyncVars, serverVars>>

\* searchMemories with query and options one of inputs
SearchMemoriesWith(inputs) ==
  \E in \in inputs :
    /\ Call("searchMemories", in,
            {WithFound(Outcome(rows, nextId, FALSE, NoRow, "searched"), found) :
               found \in SearchMemories(rows, in.query, in.options)}, clock)
    /\ UNCHANGED <<simVars, asyncVars, serverVars>>

SearchMemoriesCall == SearchMemoriesWith(SearchInputs)

Init ==
  /\ initialized = FALSE
  /\ closed = FALSE
  /\ config = DefaultConfig
  /\ dedup = StoreDeduplicates(config.memoryStorage)
  /\ rows = <<>>
  /\ todos = <<>>
  /\ nextId = 1
  /\ clock = 0
  /\ last = NoCall
  /\ ServerDown
  /\ text1 = <<>>
  /\ text2 = <<>>
  /\ sim = NoSim
  /\ Idle

Next ==
  \/ Initialize
  \/ AddMemoryCall
  \/ UpdateMemoryBankCall
  \/ DeleteMemoryCall
  \/ SearchMemoriesCall

Spec == Init /\ [][Next]_vars

\* ------------------------------------------------- configuration scenarios
\* The process starts with any of the configurations
InitConfig ==
  /\ config \in Configs
  /\ dedup = StoreDeduplicates(config.memoryStorage)
  /\ initialized = FALSE
  /\ closed = FALSE
  /\ rows = <<>>
  /\ todos = <<>>
  /\ nextId = 1
  /\ clock = 0
  /\ last = NoCall
  /\ ServerDown
  /\ text1 = <<>>
  /\ text2 = <<>>
  /\ sim = NoSim
  /\ Idle

NextConfig ==
  \/ Initialize
  \/ AddMemoryCall

SpecConfig == InitConfig /\ [][NextConfig]_vars

\* -------------------------------------------------------------- tool calls
\* tools/call add_memory
AddMemoryTool ==
  \E transport \in Transports, args \in ToolAddInputs, now \in Nows :
    \E repoInfo \in IF transport = "http" THEN RepoInfos ELSE {NoRepo},
       enhancedContent \in {args.content} \cup {Trim(t) : t \in LlmReplies} :
      /\ nextId <= MaxIds
      /\ Call("add_memory", Put(args, "transport", transport),
              AddMemory(rows, nextId,
                        HandleAddMemoryData(transport, args, enhancedContent,
                                            repoInfo, now),
                        now, dedup), now)
      /\ UNCHANGED <<simVars, asyncVars, serverVars>>

\* tools/call extract_memories: const { text, context = 'conversation' } = args
ExtractMemoriesTool ==
  \E transport \in Transports, args \in ExtractInputs, reply \in ExtractReplies,
     now \in Nows :
    LET context == IF Has(args, "context") THEN args.context ELSE Conversation
        extractedFacts == OllamaExtractMemories(args.text, context, reply)
    IN  /\ nextId + Len(extractedFacts) <= MaxIds + 1
        /\ Call("extract_memories", Put(args, "transport", transport),
                HandleExtractMemories(rows, nextId, extractedFacts, context, 1,
                                      now, dedup), now)
        /\ UNCHANGED <<simVars, asyncVars, serverVars>>

\* tools/call memory_bank_update
MemoryBankUpdateTool ==
  \E transport \in Transports, args \in ToolBankInputs, now \in Nows :
    /\ nextId + Len(args.memories) <= MaxIds + 1
    /\ Call("memory_bank_update", Put(args, "transport", transport),
            {UpdateMemoryBank(rows, nextId, args.project, TextOr(args, "category"),
                              args.memories, now)}, now)
    /\ UNCHANGED <<simVars, asyncVars, serverVars>>

NextService ==
  \/ Initialize
  \/ AddMemoryTool
  \/ ExtractMemoriesTool
  \/ MemoryBankUpdateTool

SpecService == Init /\ [][NextService]_vars

\* ------------------------------------------------------- scoring scenarios
\* Both scoring functions applied to (text1, text2)
Score ==
  /\ sim' = [coverage |-> CalculateTextSimilarity(text1, text2),
             jaccard |-> SimpleTextSimilarity(text1, text2),
             applied |-> TRUE]
  /\ UNCHANGED <<storeVars, last, text1, text2, serverVars, asyncVars>>

\* One memory with content text2 is stored ...
AddText2 ==
  /\ rows = <<>>
  /\ AddMemoryWith({[content |-> text2], [content |-> text2, context |-> Db]})

\* ... and searched for with query text1
SearchText1 ==
  /\ rows # <<>>
  /\ SearchMemoriesWith({[query |-> text1, options |-> [limit |-> DefaultSearchLimit]],
                         [query |-> text1, options |-> [context |-> Db]],
                         [query |-> text1, options |-> [threshold |-> Frac(1, 1)]]})

InitSim ==
  /\ initialized = FALSE
  /\ closed = FALSE
  /\ config = DefaultConfig
  /\ dedup = StoreDeduplicates(config.memoryStorage)
  /\ rows = <<>>
  /\ todos = <<>>
  /\ nextId = 1
  /\ clock = 0
  /\ last = NoCall
  /\ ServerDown
  /\ text1 \in Texts
  /\ text2 \in Texts
  /\ sim = NoSim
  /\ Idle

NextSim ==
  \/ Score
  \/ Initialize
  \/ AddText2
  \/ SearchText1

SpecSim == InitSim /\ [][NextSim]_vars

\* ------------------------------------------------- the whole store interface
\* Records, filters and patches for the calls below
StoreAddInputs ==
  {[content |-> <<"É">>, project |-> Proj, category |-> Db, tags |-> <<"t">>],
   [content |-> <<"a", " ", "É">>, context |-> Db, importance |-> 7],
   [content |-> <<"a">>, project |-> Proj, category |-> <<"d", ",", "b">>]}
ExportInputs == {[project |-> Proj], [category |-> Db], [none |-> TRUE]}
StoreQueries == {<<"a">>, <<"É">>}
GetInputs == {[limit |-> MaxIds], [context |-> Db, since |-> MaxClock, limit |-> 1]}
TodoInputs ==
  {[content |-> <<"a">>, project |-> Proj],
   [status |-> "completed", priority |-> "high"]}
TodoFilters == {[status |-> Pending, limit |-> 1], [project |-> Proj], [limit |-> 0]}
TodoPatches == {[status |-> "completed", project |-> <<>>]}

\* A reading call that takes the oldest memory out of the table
ReadAndForget(ret, found) ==
  WithFound(Outcome(SubSeq(rows, 2, Len(rows)), nextId, FALSE, ret, "read"), found)

\* A call that reads: it returns the record ret and the list found
Read(ret, found) == WithFound(Outcome(rows, nextId, FALSE, ret, "read"), found)

StoreAddMemoryCall == nextId <= MaxIds /\ AddMemoryWith(StoreAddInputs)

StoreSearchCall ==
  SearchMemoriesWith({[query |-> q, options |-> [limit |-> MaxIds, threshold |-> th]] :
                        q \in StoreQueries, th \in {Frac(1, 1)}})

StoreBankCall ==
  \E memories \in {<<[content |-> <<"b">>]>>}, now \in Nows :
    /\ nextId <= MaxIds
    /\ Call("updateMemoryBank",
            [project |-> Proj, category |-> Undefined, memories |-> memories],
            {UpdateMemoryBank(rows, nextId, Proj, Undefined, memories, now)}, now)
    /\ UNCHANGED <<simVars, asyncVars, serverVars>>

GetMemoriesCall ==
  \E options \in GetInputs :
    /\ Call("getMemories", options,
            {Read(NoRow, found) : found \in GetMemories(rows, options)}, clock)
    /\ UNCHANGED <<simVars, asyncVars, serverVars>>

GetMemoryByIdCall ==
  \E id \in 1..MaxIds :
    /\ Call("getMemoryById", [id |-> id], {Read(GetMemoryById(rows, id), <<>>)}, clock)
    /\ UNCHANGED <<simVars, asyncVars, serverVars>>

GetStatsCall ==
  /\ Call("getStats", [none |-> TRUE], {Read(GetStats(rows), <<>>)}, clock)
  /\ UNCHANGED <<simVars, asyncVars, serverVars>>

ListProjectsCall ==
  /\ Call("listProjects", [none |-> TRUE],
          {Read(NoRow, found) : found \in ListProjects(rows)}, clock)
  /\ UNCHANGED <<simVars, asyncVars, serverVars>>

ListProjectFilesCall ==
  /\ Call("listProjectFiles", [project |-> Proj],
          {Read([categories |-> ListProjectFiles(rows, Proj)], <<>>)}, clock)
  /\ UNCHANGED <<simVars, asyncVars, serverVars>>

ExportMemoryBankCall ==
  \E in \in ExportInputs :
    /\ Call("exportMemoryBank", in,
            {Read(MemoryBankExport(TextOr(in, "project"), TextOr(in, "category"),
                                   "json", found, clock), found) :
               found \in ExportMemoryBank(rows, TextOr(in, "project"),
                                          TextOr(in, "category"))}, clock)
    /\ UNCHANGED <<simVars, asyncVars, serverVars>>

AddTodoCall ==
  \E todoData \in TodoInputs, now \in Nows :
    /\ nextId <= MaxIds
    /\ Call("addTodo", todoData, {AddTodo(rows, todos, nextId, todoData, now)}, now)
    /\ UNCHANGED <<simVars, asyncVars, serverVars>>

ListTodosCall ==
  \E options \in TodoFilters :
    /\ Call("listTodos", options,
            {WithTodos(Read(NoRow, found), todos) : found \in ListTodos(todos, options)},
            clock)
    /\ UNCHANGED <<simVars, asyncVars, serverVars>>

UpdateTodoCall ==
  \E id \in 1..MaxIds, updates \in TodoPatches, now \in Nows :
    /\ Call("updateTodo", Put(updates, "id", id),
            {UpdateTodo(rows, todos, nextId, id, updates, now)}, now)
    /\ UNCHANGED <<simVars, asyncVars, serverVars>>

DeleteTodoCall ==
  \E id \in 1..MaxIds :
    /\ Call("deleteTodo", [id |-> id], {DeleteTodo(rows, todos, nextId, id)}, clock)
    /\ UNCHANGED <<simVars, asyncVars, serverVars>>

GetTodoByIdCall ==
  \E id \in 1..MaxIds :
    /\ Call("getTodoById", [id |-> id], {Read(GetTodoById(todos, id), <<>>)}, clock)
    /\ UNCHANGED <<simVars, asyncVars, serverVars>>

\* close: if (db) { await db.close(); } -- nothing at all without a
\* connection; closing the handle a second time is refused by the driver
CloseCall ==
  /\ closed' = initialized
  /\ last' = [NoCall EXCEPT !.op = "close",
                            !.threw = initialized /\ closed,
                            !.path = IF ~initialized THEN "no-op"
                                     ELSE IF closed THEN "closed" ELSE "closed-now",
                            !.before = rows, !.todosBefore = todos]
  /\ UNCHANGED <<initialized, config, dedup, rows, todos, nextId, clock, simVars, asyncVars, serverVars>>

\* -------------------------------------------------------- lookup scenarios
\* A store with one memory written by addMemory and up to five written by
\* one updateMemoryBank (which does not look for duplicates) before or after
\* it, all holding the first 50 characters of LongAB
LookupMemories ==
  {[content |-> LongAB, importance |-> i] : i \in Importances}
    \cup {[content |-> LongAB, context |-> Db, importance |-> i] : i \in Importances}

LookupStores ==
  {<<NewMemoryRow(1, Put(old, "timestamp", 0), 0)>>
     \o [i \in 1..n |-> BankRow(i + 1, Proj, Undefined, [content |-> LongA], MaxClock)] :
     old \in LookupMemories, n \in 0..DedupCandidateLimit}
  \cup
  {[i \in 1..n |-> BankRow(i, Proj, Undefined, [content |-> LongA], 0)]
     \o <<NewMemoryRow(n + 1, Put(old, "timestamp", MaxClock), MaxClock)>> :
     old \in LookupMemories, n \in 1..DedupCandidateLimit}

InitLookup ==
  /\ initialized = TRUE
  /\ closed = FALSE
  /\ config = DefaultConfig
  /\ dedup = StoreDeduplicates(config.memoryStorage)
  /\ rows \in LookupStores
  /\ nextId = Len(rows) + 1
  /\ todos = <<>>
  /\ clock = MaxClock
  /\ last = NoCall
  /\ ServerDown
  /\ text1 = <<>>
  /\ text2 = <<>>
  /\ sim = NoSim
  /\ Idle

\* addMemory into such a store
LookupAddMemory ==
  /\ Len(rows) <= DedupCandidateLimit + 1
  /\ AddMemoryWith({[content |-> LongAB, importance |-> 3],
                    [content |-> <<"a", " ", "b">>, importance |-> 3]})

NextLookup == LookupAddMemory

SpecLookup == InitLookup /\ [][NextLookup]_vars

\* ------------------------------------------------------- interleaved calls
\* Two requests are handled at once: each store call runs up to its next
\* await, and the statements of the two reach the one database handle in any
\* order.  A call is at the statement it awaits (pc), with what its lookup
\* returned (hit), how far its batch has come (at) and, once done, what its
\* caller gets (threw, ret, changed).
Start(op, args, pc) ==
  [op |-> op, args |-> args, pc |-> pc, hit |-> NoRow, at |-> 1,
   threw |-> FALSE, ret |-> NoRow, changed |-> FALSE]

AsyncMemory == [content |-> <<"a", " ", "b">>]
AsyncStore == <<NewMemoryRow(1, [content |-> <<"b">>, timestamp |-> 0], 0)>>
AsyncTodos == <<NewTodoRow(2, [content |-> <<"a">>, project |-> Proj], 0)>>

AsyncCalls ==
  {Start("addMemory", Put(Put(AsyncMemory, "importance", i), "timestamp", 0), "lookup") :
     i \in Importances}
  \cup {Start("addTodo", [content |-> <<"b">>], "insert"),
        Start("updateTodo", [id |-> 2, updates |-> [status |-> "completed"]], "select"),
        Start("deleteTodo", [id |-> 2], "delete"),
        Start("deleteMemory", [id |-> 1], "delete"),
        Start("updateMemoryBank",
              [project |-> Proj, category |-> Undefined,
               memories |-> <<[content |-> <<"a">>]>>], "begin"),
        Start("updateMemoryBank",
              [project |-> Proj, category |-> Undefined,
               memories |-> <<[content |-> <<"a">>], [importance |-> 3]>>], "begin")}

InitAsync ==
  /\ initialized = TRUE
  /\ closed = FALSE
  /\ config = DefaultConfig
  /\ dedup = StoreDeduplicates(config.memoryStorage)
  /\ rows = AsyncStore
  /\ todos = AsyncTodos
  /\ nextId = 3
  /\ clock = 0
  /\ last = NoCall
  /\ ServerDown
  /\ text1 = <<>>
  /\ text2 = <<>>
  /\ sim = NoSim
  /\ connection = NoTransaction
  /\ calls \in {<<c, d>> : c, d \in AsyncCalls}

\* Call i is op and awaits pc
Awaits(i, op, pc) == calls[i].op = op /\ calls[i].pc = pc

\* The statement call i awaited has run: the call goes on as c, the tables
\* are rs and ts
Resumed(i, c, rs, ts, nid) ==
  /\ calls' = [calls EXCEPT ![i] = c]
  /\ rows' = rs
  /\ todos' = ts
  /\ nextId' = nid
  /\ UNCHANGED <<initialized, closed, config, dedup, clock, last, simVars, serverVars>>

Settled(c, o) == [c EXCEPT !.pc = "done", !.threw = o.threw, !.ret = o.ret,
                           !.changed = o.changed]

\* addMemory: await findSimilarMemory(db, content, context)
AwaitFindSimilarMemory ==
  \E i \in 1..Len(calls) :
    /\ Awaits(i, "addMemory", "lookup")
    /\ \E e \in IF dedup
                THEN FindSimilarMemory(rows, calls[i].args.content,
                                       NewMemoryRow(nextId, calls[i].args, clock).context)
                ELSE {NoRow} :
         Resumed(i, [calls[i] EXCEPT !.hit = e,
                                     !.pc = IF e = NoRow THEN "insert" ELSE "merge"],
                 rows, todos, nextId)
    /\ UNCHANGED connection

\* addMemory: await updateMemory(db, existing.id, {...})
AwaitUpdateMemory ==
  \E i \in 1..Len(calls) :
    /\ Awaits(i, "addMemory", "merge")
    /\ LET c == calls[i]
           row == NewMemoryRow(nextId, c.args, clock)
           u == UpdateMemory(rows, c.hit.id,
                  [content |-> row.content,
                   importance |-> Max(c.hit.importance, row.importance),
                   updatedAt |-> IsoStamp(clock)], clock)
       IN  Resumed(i, [c EXCEPT !.pc = "done", !.threw = u.threw,
                                !.ret = IF u.threw THEN NoRow
                                        ELSE [Returned(c.hit) EXCEPT
                                                !.content = row.content,
                                                !.importance = row.importance]],
                   u.rows, todos, nextId)
    /\ UNCHANGED connection

\* addMemory: await db.run(INSERT INTO memories ...)
AwaitInsertMemory ==
  \E i \in 1..Len(calls) :
    /\ Awaits(i, "addMemory", "insert")
    /\ \E o \in AddMemory(rows, nextId, calls[i].args, clock, FALSE) :
         Resumed(i, Settled(calls[i], o), o.rows, todos, o.nextId)
    /\ UNCHANGED connection

\* addTodo: await db.run(INSERT INTO todos ...)
AwaitInsertTodo ==
  \E i \in 1..Len(calls) :
    /\ Awaits(i, "addTodo", "insert")
    /\ LET o == AddTodo(rows, todos, nextId, calls[i].args, clock)
       IN  Resumed(i, Settled(calls[i], o), rows, o.todos, o.nextId)
    /\ UNCHANGED connection

\* updateTodo: const existing = await this.getTodoById(id)
AwaitExistingTodo ==
  \E i \in 1..Len(calls) :
    /\ Awaits(i, "updateTodo", "select")
    /\ LET e == GetTodoById(todos, calls[i].args.id)
       IN  Resumed(i, [calls[i] EXCEPT !.hit = e,
                                       !.pc = IF e = NoRow THEN "done" ELSE "update"],
                   rows, todos, nextId)
    /\ UNCHANGED connection

\* updateTodo: await db.run(UPDATE todos SET ... WHERE id = ?)
AwaitUpdateTodo ==
  \E i \in 1..Len(calls) :
    /\ Awaits(i, "updateTodo", "update")
    /\ LET o == UpdateTodo(rows, todos, nextId, calls[i].args.id,
                           calls[i].args.updates, clock)
       IN  Resumed(i, [calls[i] EXCEPT !.pc = "readback"], rows, o.todos, nextId)
    /\ UNCHANGED connection

\* updateTodo: return this.getTodoById(id)
AwaitUpdatedTodo ==
  \E i \in 1..Len(calls) :
    /\ Awaits(i, "updateTodo", "readback")
    /\ Resumed(i, [calls[i] EXCEPT !.pc = "done",
                                    !.ret = GetTodoById(todos, calls[i].args.id)],
               rows, todos, nextId)
    /\ UNCHANGED connection

\* deleteTodo: await db.run(DELETE FROM todos WHERE id = ?)
AwaitDeleteTodo ==
  \E i \in 1..Len(calls) :
    /\ Awaits(i, "deleteTodo", "delete")
    /\ LET o == DeleteTodo(rows, todos, nextId, calls[i].args.id)
       IN  Resumed(i, Settled(calls[i], o), rows, o.todos, nextId)
    /\ UNCHANGED connection

\* deleteMemory: await db.run(DELETE FROM memories WHERE id = ?)
AwaitDeleteMemory ==
  \E i \in 1..Len(calls) :
    /\ Awaits(i, "deleteMemory", "delete")
    /\ LET o == DeleteMemory(rows, nextId, calls[i].args.id)
       IN  Resumed(i, Settled(calls[i], o), o.rows, todos, nextId)
    /\ UNCHANGED connection

\* updateMemoryBank: await db.run('BEGIN TRANSACTION'), outside the try.
\* The handle has one transaction: a BEGIN inside it is an error.
AwaitBegin ==
  \E i \in 1..Len(calls) :
    /\ Awaits(i, "updateMemoryBank", "begin")
    /\ IF connection.open
       THEN /\ Resumed(i, [calls[i] EXCEPT !.pc = "done", !.threw = TRUE],
                       rows, todos, nextId)
            /\ UNCHANGED connection
       ELSE /\ Resumed(i, [calls[i] EXCEPT
                             !.pc = IF calls[i].args.memories = <<>> THEN "commit"
                                    ELSE "insert"],
                       rows, todos, nextId)
            /\ connection' = [open |-> TRUE, rows |-> rows, todos |-> todos]

\* updateMemoryBank: await db.run(INSERT INTO memories ...) for one element
AwaitBankInsert ==
  \E i \in 1..Len(calls) :
    /\ Awaits(i, "updateMemoryBank", "insert")
    /\ LET c == calls[i]
           row == BankRow(nextId, c.args.project, c.args.category,
                          c.args.memories[c.at], clock)
       IN  IF NotNullViolated(row) \/ KeyTaken(rows, row.id)
           THEN Resumed(i, [c EXCEPT !.pc = "rollback"], rows, todos, nextId)
           ELSE Resumed(i, [c EXCEPT !.at = c.at + 1,
                                     !.pc = IF c.at = Len(c.args.memories)
                                            THEN "commit" ELSE "insert"],
                        Append(rows, row), todos, nextId + 1)
    /\ UNCHANGED connection

\* updateMemoryBank: await db.run('COMMIT'); with no transaction open the
\* statement is an error, which the catch takes
AwaitCommit ==
  \E i \in 1..Len(calls) :
    /\ Awaits(i, "updateMemoryBank", "commit")
    /\ IF connection.open
       THEN /\ Resumed(i, [calls[i] EXCEPT !.pc = "done"], rows, todos, nextId)
            /\ connection' = NoTransaction
       ELSE /\ Resumed(i, [calls[i] EXCEPT !.pc = "rollback"], rows, todos, nextId)
            /\ UNCHANGED connection

\* updateMemoryBank: await db.run('ROLLBACK') in the catch, then the error is
\* thrown.  What the handle wrote since BEGIN goes, whichever call wrote it.
AwaitRollback ==
  \E i \in 1..Len(calls) :
    /\ Awaits(i, "updateMemoryBank", "rollback")
    /\ IF connection.open
       THEN /\ Resumed(i, [calls[i] EXCEPT !.pc = "done", !.threw = TRUE],
                       connection.rows, connection.todos, nextId)
            /\ connection' = NoTransaction
       ELSE /\ Resumed(i, [calls[i] EXCEPT !.pc = "done", !.threw = TRUE],
                       rows, todos, nextId)
            /\ UNCHANGED connection

NextAsync ==
  \/ AwaitFindSimilarMemory
  \/ AwaitUpdateMemory
  \/ AwaitInsertMemory
  \/ AwaitInsertTodo
  \/ AwaitExistingTodo
  \/ AwaitUpdateTodo
  \/ AwaitUpdatedTodo
  \/ AwaitDeleteTodo
  \/ AwaitDeleteMemory
  \/ AwaitBegin
  \/ AwaitBankInsert
  \/ AwaitCommit
  \/ AwaitRollback

SpecAsync == InitAsync /\ [][NextAsync]_vars

\* ------------------------------------------------------------ id scenarios
\* generateId() is the time and a random number in base 36: what it returns
\* can be the id of a stored record.  The calls below take any id for it.
IdMemories == {[content |-> <<"a", " ", "b">>], [content |-> <<"b">>, context |-> Db]}
IdTodos == {[content |-> <<"a">>, project |-> Proj]}

AddMemoryAnyId ==
  \E id \in 1..MaxIds, in \in IdMemories :
    LET data == Put(in, "timestamp", clock)
    IN  /\ Call("addMemory", Put(data, "id", id),
                AddMemory(rows, id, data, clock, dedup), clock)
        /\ UNCHANGED <<simVars, asyncVars, serverVars>>

AddTodoAnyId ==
  \E id \in 1..MaxIds, todoData \in IdTodos :
    /\ Call("addTodo", Put(todoData, "id", id),
            {AddTodo(rows, todos, id, todoData, clock)}, clock)
    /\ UNCHANGED <<simVars, asyncVars, serverVars>>

UpdateTodoAtOnce ==
  \E id \in 1..MaxIds, updates \in TodoPatches :
    /\ Call("updateTodo", Put(updates, "id", id),
            {UpdateTodo(rows, todos, nextId, id, updates, clock)}, clock)
    /\ UNCHANGED <<simVars, asyncVars, serverVars>>

NextIds ==
  \/ Initialize
  \/ AddMemoryAnyId
  \/ AddTodoAnyId
  \/ DeleteMemoryCall
  \/ UpdateTodoAtOnce
  \/ DeleteTodoCall

SpecIds == Init /\ [][NextIds]_vars

\* The store as configured with deduplication: false
InitStore ==
  /\ initialized = FALSE
  /\ closed = FALSE
  /\ config = [DefaultConfig EXCEPT !.memoryStorage = [type |-> "sqlite", deduplication |-> FALSE]]
  /\ dedup = StoreDeduplicates(config.memoryStorage)
  /\ rows = <<>>
  /\ todos = <<>>
  /\ nextId = 1
  /\ clock = 0
  /\ last = NoCall
  /\ text1 = <<>>
  /\ text2 = <<>>
  /\ sim = NoSim
  /\ Idle
  /\ ServerDown

NextStore ==
  \/ Initialize
  \/ StoreAddMemoryCall
  \/ StoreSearchCall
  \/ StoreBankCall
  \/ DeleteMemoryCall
  \/ GetMemoriesCall
  \/ GetMemoryByIdCall
  \/ GetStatsCall
  \/ ListProjectsCall
  \/ ListProjectFilesCall
  \/ ExportMemoryBankCall
  \/ AddTodoCall
  \/ ListTodosCall
  \/ UpdateTodoCall
  \/ DeleteTodoCall
  \/ GetTodoByIdCall
  \/ CloseCall

SpecStore == InitStore /\ [][NextStore]_vars

\* ------------------------------------------------------- server: catalogs
Statuses == {"pending", "in_progress", "completed"}
Priorities == {"low", "medium", "high"}
Formats == {"json", "markdown", "csv"}

\* An advertised tool: its name, inputSchema.required, and the value sets of
\* its enumerated properties
Tool(name, required, enums) == [name |-> name, required |-> required, enums |-> enums]
TodoEnums ==
  {[property |-> "status", values |-> Statuses],
   [property |-> "priority", values |-> Priorities]}
FormatEnums == {[property |-> "format", values |-> Formats]}

\* The tools of the ListTools handler of the stdio server
DirectCatalog ==
  <<Tool("add_memory", {"content"}, {}),
    Tool("search_memories", {"query"}, {}),
    Tool("get_memories", {}, {}),
    Tool("extract_memories", {"text"}, {}),
    Tool("delete_memory", {"id"}, {}),
    Tool("list_projects", {}, {}),
    Tool("list_project_files", {"project"}, {}),
    Tool("memory_bank_update", {"project", "memories"}, {}),
    Tool("export_memory_bank", {"format"}, FormatEnums),
    Tool("add_todo", {"content"}, TodoEnums),
    Tool("list_todos", {}, TodoEnums),
    Tool("update_todo", {"id"}, TodoEnums),
    Tool("delete_todo", {"id"}, {})>>

\* The array tools of the HTTP bridge
HttpCatalog ==
  <<Tool("add_memory", {"content"}, {}),
    Tool("search_memories", {"query"}, {}),
    Tool("get_memories", {}, {}),
    Tool("extract_memories", {"text"}, {}),
    Tool("delete_memory", {"id"}, {}),
    Tool("list_projects", {}, {}),
    Tool("list_project_files", {"project"}, {}),
    Tool("memory_bank_update", {"project", "memories"}, {}),
    Tool("export_memory_bank", {"format"}, FormatEnums),
    Tool("add_todo", {"content"}, TodoEnums),
    Tool("list_todos", {}, TodoEnums),
    Tool("update_todo", {"id"}, TodoEnums),
    Tool("delete_todo", {"id"}, {})>>

\* A server whose listing leaves out its last tool
ListToolsShort(w) ==
  IF w = "http" THEN SubSeq(HttpCatalog, 1, Len(HttpCatalog) - 1) ELSE DirectCatalog

\* tools/list of either server
ListTools(w) == IF w = "http" THEN HttpCatalog ELSE DirectCatalog

\* The case labels of the two switch statements over the tool name
DirectCases ==
  {"add_memory", "search_memories", "get_memories", "extract_memories",
   "delete_memory", "list_projects", "list_project_files", "memory_bank_update",
   "export_memory_bank", "add_todo", "list_todos", "update_todo", "delete_todo"}
HttpCases ==
  {"add_memory", "search_memories", "get_memories", "extract_memories",
   "delete_memory", "list_projects", "list_project_files", "memory_bank_update",
   "export_memory_bank", "add_todo", "list_todos", "update_todo", "delete_todo"}

\* The arguments the stdio server looks for before it calls the handler
RequiredArgs(name) ==
  CASE name \in {"add_memory", "add_todo"} -> {"content"}
    [] name = "search_memories" -> {"query"}
    [] name = "extract_memories" -> {"text"}
    [] name \in {"delete_memory", "update_todo", "delete_todo"} -> {"id"}
    [] name = "list_project_files" -> {"project"}
    [] name = "memory_bank_update" -> {"project", "memories"}
    [] name = "export_memory_bank" -> {"format"}
    [] OTHER -> {}

\* ------------------------------------------------------- server: handlers
SimilarityThresholdNum == 4
SimilarityThresholdDen == 5
HttpBadRequest == 400
HttpNotFound == 404
HttpServerError == 500

\* The store as a handler finds it
Store == [initialized |-> initialized, closed |-> closed, dedup |-> dedup, rows |-> rows,
          todos |-> todos, nextId |-> nextId]

\* What a handler leaves behind: the tables, whether it threw and with what
\* message, the text of its result
Handled(db, o, text, handler) ==
  [rows |-> o.rows, todos |-> IF Has(o, "todos") THEN o.todos ELSE db.todos,
   nextId |-> o.nextId, threw |-> o.threw,
   cause |-> IF o.threw THEN o.path ELSE "none",
   text |-> IF o.threw THEN NoText ELSE text,
   stored |-> o.ret, handler |-> handler]
\* ... of code that throws without having written
Threw(db, cause, handler) ==
  Handled(db, Outcome(db.rows, db.nextId, TRUE, NoRow, cause), NoText, handler)
\* ... of code that only reads
Told(db, text, handler) ==
  Handled(db, Outcome(db.rows, db.nextId, FALSE, NoRow, "read"), text, handler)

\* The wording of a text that the two servers phrase differently
Worded(w, direct, http) == IF w = "http" THEN http ELSE direct

\* ----------------------------------------------------------- server: CSV
\* A text written out is a sequence of characters and of pieces that hold
\* neither a quote, a comma nor a line break (numbers, stamps, words)
Quote == "\""
Comma == ","
Newline == "\n"

\* String.prototype.replace(/c/g, by): every occurrence of the character
RECURSIVE ReplaceAll(_, _, _)
ReplaceAll(t, c, by) ==
  IF t = <<>> THEN <<>>
  ELSE (IF Head(t) = c THEN by ELSE <<Head(t)>>) \o ReplaceAll(Tail(t), c, by)

\* Array.prototype.join
RECURSIVE Join(_, _)
Join(parts, sep) ==
  IF parts = <<>> THEN <<>>
  ELSE IF Len(parts) = 1 THEN parts[1]
  ELSE parts[1] \o sep \o Join(Tail(parts), sep)

\* String.prototype.split('\n')
RECURSIVE SplitLines(_)
SplitLines(t) ==
  IF Newline \notin {t[i] : i \in 1..Len(t)} THEN <<t>>
  ELSE LET k == CHOOSE i \in 1..Len(t) :
                  t[i] = Newline /\ \A j \in 1..(i - 1) : t[j] # Newline
       IN  <<SubSeq(t, 1, k - 1)>> \o SplitLines(SubSeq(t, k + 1, Len(t)))

\* A number and a stamp, written out
NumberText(n) == <<ToString(n)>>
StampText(stamp) == <<IF stamp.iso = 1 THEN "iso" ELSE "sql", ToString(stamp.t)>>
\* `"${content.replace(/"/g, '""')}"`
QuotedContent(content) == <<Quote>> \o ReplaceAll(content, Quote, <<Quote, Quote>>) \o <<Quote>>

CsvHeaders ==
  <<"ID", "Content", "Project", "Category", "Context", "Importance", "Tags",
    "Source", "Created", "Updated">>
HttpCsvHeader == <<"ID", Comma, "Content", Comma, "Context", Comma, "Importance", Comma, "Created">>

\* formatAsCSV of the stdio server
FormatAsCSV(exportData) ==
  LET Row(memory) ==
        <<NumberText(memory.id),
          QuotedContent(memory.content),
          OrElse(memory.project, <<>>),
          OrElse(memory.category, <<>>),
          memory.context,
          NumberText(memory.importance),
          IF memory.tags # Undefined
          THEN <<Quote>> \o Join([i \in 1..Len(memory.tags) |-> <<memory.tags[i]>>],
                                 <<Comma, " ">>) \o <<Quote>>
          ELSE <<>>,
          <<memory.source>>,
          StampText(memory.createdAt),
          StampText(memory.updatedAt)>>
      csvRows ==
        <<Join([i \in 1..Len(CsvHeaders) |-> <<CsvHeaders[i]>>], <<Comma>>)>>
          \o [i \in 1..Len(exportData.memories) |->
                Join(Row(exportData.memories[i]), <<Comma>>)]
  IN  Join(csvRows, <<Newline>>)

\* handleExportMemoryBank of the HTTP bridge, case 'csv'
HttpFormatAsCSV(exportData) ==
  LET Row(m) ==
        NumberText(m.id) \o <<Comma>> \o QuotedContent(m.content) \o <<Comma>>
          \o m.context \o <<Comma>> \o NumberText(m.importance) \o <<Comma>>
          \o StampText(m.createdAt)
  IN  Join(<<HttpCsvHeader>>
             \o [i \in 1..Len(exportData.memories) |-> Row(exportData.memories[i])],
           <<Newline>>)

\* handleExportMemoryBank: formattedContent (the JSON and Markdown documents
\* are not written out here)
FormattedContent(w, format, exportData) ==
  IF format = "csv"
  THEN IF w = "http" THEN HttpFormatAsCSV(exportData) ELSE FormatAsCSV(exportData)
  ELSE <<>>

\* The handlers of createToolHandlers, by tool name.  w is the server the
\* handler belongs to; env is what the enhancement and extraction models
\* answer and what detectRepositoryInfo() finds.
HandleTool(db, w, name, args, env, now) ==
  CASE name = "add_memory" ->
         LET content == TextOr(args, "content")
             enhancedContent == OllamaEnhanceMemory(content, env.enhanced)
             memoryData == HandleAddMemoryData(w, args, enhancedContent, env.repoInfo, now)
         IN  {Handled(db, o, Text("Memory stored successfully with ID: ${memory.id}",
                                  o.ret.id, enhancedContent, 0), name) :
                o \in AddMemory(db.rows, db.nextId, memoryData, now, db.dedup)}
    [] name = "search_memories" ->
         IF ~Has(args, "query") THEN {Threw(db, "TypeError", name)}
         ELSE LET limited == [limit |-> IF Has(args, "limit") THEN args.limit
                                        ELSE DefaultSearchLimit,
                              threshold |-> Frac(SimilarityThresholdNum,
                                                 SimilarityThresholdDen)]
                  options == IF Truthy(TextOr(args, "context"))
                             THEN Put(limited, "context", args.context) ELSE limited
              IN  {Told(db, Text(IF found = <<>>
                                 THEN Worded(w, "No memories found for query: ${query}",
                                             "No memories found matching your query.")
                                 ELSE Worded(w, "Found ${memories.length} relevant memories",
                                             "Found ${memories.length} memories"),
                                 0, args.query, Len(found)), name) :
                     found \in SearchMemories(db.rows, args.query, options)}
    [] name = "get_memories" ->
         LET limited == [limit |-> IF Has(args, "limit") THEN args.limit
                                   ELSE DefaultGetLimit]
             options == IF Truthy(TextOr(args, "context"))
                        THEN Put(limited, "context", args.context) ELSE limited
         IN  {Told(db, Text(IF found = <<>>
                            THEN Worded(w, IF Truthy(TextOr(args, "context"))
                                           THEN "No memories found for context: ${context}"
                                           ELSE "No memories found",
                                        "No memories found.")
                            ELSE "Found ${memories.length} memories",
                            0, <<>>, Len(found)), name) :
                found \in GetMemories(db.rows, options)}
    [] name = "extract_memories" ->
         LET context == IF Has(args, "context") THEN args.context ELSE Conversation
         IN  IF ~Has(args, "text") /\ ~env.extracted.ok
             THEN {Threw(db, "TypeError", name)}
             ELSE LET extractedFacts ==
                        OllamaExtractMemories(TextOr(args, "text"), context, env.extracted)
                  IN  {Handled(db, o, Text("Extracted and stored ${memories.length} memories",
                                           0, <<>>, Len(extractedFacts)), name) :
                         o \in HandleExtractMemories(db.rows, db.nextId, extractedFacts,
                                                     context, 1, now, db.dedup)}
    [] name = "delete_memory" ->
         LET id == IF Has(args, "id") THEN args.id ELSE 0
             o == DeleteMemory(db.rows, db.nextId, id)
         IN  {Handled(db, o,
                      Text(IF o.changed
                           THEN Worded(w, "Memory with ID \"${id}\" deleted successfully",
                                       "Memory with ID ${id} deleted successfully.")
                           ELSE Worded(w, "Memory with ID \"${id}\" not found",
                                       "Memory with ID ${id} not found."),
                           id, <<>>, 0), name)}
    [] name = "list_projects" ->
         {Told(db, Text(IF found = <<>>
                        THEN Worded(w, "No projects with memories found.",
                                    "No projects found.")
                        ELSE Worded(w, "Found ${projects.length} projects with memories",
                                    "Found ${projects.length} projects"),
                        0, <<>>, Len(found)), name) :
            found \in ListProjects(db.rows)}
    [] name = "list_project_files" ->
         LET categories == ListProjectFiles(db.rows, TextOr(args, "project"))
         IN  {Told(db, Text(IF categories = {}
                            THEN Worded(w, "No memory categories found for project \"${project}\".",
                                        "No categories found for project: ${project}")
                            ELSE Worded(w, "Memory categories for project \"${project}\"",
                                        "Categories in project \"${project}\""),
                            0, TextOr(args, "project"), Cardinality(categories)), name)}
    [] name = "memory_bank_update" ->
         IF ~Has(args, "memories") THEN {Threw(db, "TypeError", name)}
         ELSE {Handled(db, UpdateMemoryBank(db.rows, db.nextId, TextOr(args, "project"),
                                            TextOr(args, "category"), args.memories, now),
                       Text(IF w = "stdio" /\ Truthy(TextOr(args, "category"))
                            THEN "Successfully updated memory bank for project \"${project}\" in category \"${category}\" with ${memories.length} memories."
                            ELSE "Successfully updated memory bank for project \"${project}\" with ${memories.length} memories.",
                            0, TextOr(args, "project"), Len(args.memories)), name)}
    [] name = "export_memory_bank" ->
         {LET format == IF Has(args, "format") THEN args.format ELSE "json"
          IN  Told(db, Text("Exported ${exportData.memories.length} memories", 0,
                            FormattedContent(w, format,
                                             MemoryBankExport(TextOr(args, "project"),
                                                              TextOr(args, "category"),
                                                              format, found, now)),
                            Len(found)), name) :
            found \in ExportMemoryBank(db.rows, TextOr(args, "project"),
                                       TextOr(args, "category"))}
    [] name = "add_todo" ->
         LET o == AddTodo(db.rows, db.todos, db.nextId, args, now)
         IN  {Handled(db, o, Text("Todo added successfully with ID: ${todo.id}",
                                  o.ret.id, <<>>, 0), name)}
    [] name = "list_todos" ->
         {Told(db, Text(IF found = <<>> THEN "No todos found matching the criteria."
                        ELSE "Found ${todos.length} todos", 0, <<>>, Len(found)), name) :
            found \in ListTodos(db.todos, args)}
    [] name = "update_todo" ->
         LET id == IF Has(args, "id") THEN args.id ELSE 0
             updates == [f \in DOMAIN args \ {"id"} |-> args[f]]
             o == UpdateTodo(db.rows, db.todos, db.nextId, id, updates, now)
         IN  {Handled(db, o, Text(IF o.ret = NoRow THEN "Todo with ID ${id} not found."
                                  ELSE "Todo updated successfully", id, <<>>, 0), name)}
    [] name = "delete_todo" ->
         LET id == IF Has(args, "id") THEN args.id ELSE 0
             o == DeleteTodo(db.rows, db.todos, db.nextId, id)
         IN  {Handled(db, o, Text(IF o.changed THEN "Todo with ID ${id} deleted successfully."
                                  ELSE "Todo with ID ${id} not found.", id, <<>>, 0), name)}

\* A handler called: each reaches the store, whose operations begin with
\* if (!db) throw new Error('Database not initialized')
CallHandler(db, w, name, args, env, now) ==
  IF ~db.initialized THEN {Threw(db, "Database not initialized", name)}
  ELSE IF db.closed THEN {Threw(db, "closed", name)}
  ELSE HandleTool(db, w, name, args, env, now)

\* ------------------------------------------------------- server: dispatch
\* The envelopes: {content: [{type: 'text', text}]}, {tools}, and an error
Result(text) ==
  [kind |-> "result", error |-> "none", code |-> 0, message |-> NoMessage,
   text |-> text, tools |-> <<>>]
ToolList(tools) ==
  [kind |-> "result", error |-> "none", code |-> 0, message |-> NoMessage,
   text |-> NoText, tools |-> tools]
Failure(error, code, message) ==
  [kind |-> "error", error |-> error, code |-> code, message |-> message,
   text |-> NoText, tools |-> <<>>]

\* One request served: what the handler left behind, and the responses sent
Exchange(h, sends) == [h |-> h, sends |-> sends]

\* The try block of the stdio server's CallTool handler
DirectSwitch(db, name, args, env, now) ==
  IF name \notin DirectCases
  THEN {Threw(db, "MethodNotFound: Unknown tool", "none")}
  ELSE IF ~(RequiredArgs(name) \subseteq DOMAIN args)
  THEN {Threw(db, "InvalidParams: Missing required parameter", "none")}
  ELSE CallHandler(db, "stdio", name, args, env, now)

\* The try block alone: what it throws leaves the handler as it is
DirectCallToolUncaught(db, name, args, env, now) ==
  {Exchange(h, IF h.threw THEN <<>> ELSE <<Result(h.text)>>) :
     h \in DirectSwitch(db, name, args, env, now)}

\* ... and its catch, which wraps whatever was thrown
DirectCallTool(db, name, args, env, now) ==
  {Exchange(h, <<IF h.threw
                 THEN Failure("InternalError", 0,
                              Message("Error executing tool", name, h.cause))
                 ELSE Result(h.text)>>) :
     h \in DirectSwitch(db, name, args, env, now)}

\* The stdio server: ListTools and CallTool
DirectServe(db, request, env, now) ==
  IF request.method = "tools/list"
  THEN {Exchange(Told(db, NoText, "none"), <<ToolList(ListTools("stdio"))>>)}
  ELSE DirectCallTool(db, request.name, request.args, env, now)

\* POST /mcp without its catch: the rejection of a handler ends the route
\* with no response written
HttpMcpUncaught(db, request, env, now) ==
  IF request.method # "tools/call" \/ request.name \notin HttpCases
  THEN {Exchange(Told(db, NoText, "none"), <<ToolList(ListTools("http"))>>)}
  ELSE {Exchange(h, IF h.threw THEN <<>> ELSE <<Result(h.text)>>) :
          h \in CallHandler(db, "http", request.name, request.args, env, now)}

\* POST /mcp of the HTTP bridge
HttpMcp(db, request, env, now) ==
  IF request.method = "tools/list"
  THEN {Exchange(Told(db, NoText, "none"), <<ToolList(ListTools("http"))>>)}
  ELSE IF request.method = "tools/call"
  THEN IF request.name = ""
       THEN {Exchange(Told(db, NoText, "none"),
                      <<Failure("http", HttpBadRequest,
                                Message("Missing tool name", "none", "none"))>>)}
       ELSE IF request.name \notin HttpCases
       THEN {Exchange(Told(db, NoText, "none"),
                      <<Failure("http", HttpNotFound,
                                Message("Unknown tool", request.name, "none"))>>)}
       ELSE {Exchange(h, <<IF h.threw
                           THEN Failure("http", HttpServerError,
                                        Message("Internal server error", "none", h.cause))
                           ELSE Result(h.text)>>) :
               h \in CallHandler(db, "http", request.name, request.args, env, now)}
  ELSE {Exchange(Told(db, NoText, "none"),
                 <<Failure("http", HttpBadRequest,
                           Message("Invalid MCP method", "none", "none"))>>)}

\* Either server
Serve(db, w, request, env, now) ==
  IF w = "http" THEN HttpMcp(db, request, env, now)
  ELSE DirectServe(db, request, env, now)

\* ------------------------------------------------------- server: requests
Request(method, name, args) == [method |-> method, name |-> name, args |-> args]

\* tools/call with the required arguments ...
CompleteCalls ==
  {Request("tools/call", "add_memory", [content |-> <<"a", " ", "b">>]),
   Request("tools/call", "search_memories", [query |-> <<"a">>]),
   Request("tools/call", "get_memories", [limit |-> 1]),
   Request("tools/call", "extract_memories", [text |-> Keepable]),
   Request("tools/call", "extract_memories", [text |-> <<"a", " ", "b">>, context |-> Db]),
   Request("tools/call", "delete_memory", [id |-> 1]),
   Request("tools/call", "list_projects", [none |-> TRUE]),
   Request("tools/call", "list_project_files", [project |-> Proj]),
   Request("tools/call", "memory_bank_update",
           [project |-> Proj, memories |-> <<[content |-> <<"b">>]>>]),
   Request("tools/call", "export_memory_bank", [format |-> "json"]),
   Request("tools/call", "add_todo", [content |-> <<"a">>]),
   Request("tools/call", "list_todos", [status |-> Pending]),
   Request("tools/call", "update_todo", [id |-> 1, status |-> "completed"]),
   Request("tools/call", "delete_todo", [id |-> 1])}
\* ... and without them
IncompleteCalls ==
  {Request("tools/call", name, [none |-> TRUE]) :
     name \in {"add_memory", "search_memories", "extract_memories", "delete_memory",
               "list_project_files", "export_memory_bank", "add_todo", "update_todo",
               "delete_todo"}}
  \cup {Request("tools/call", "memory_bank_update", [project |-> Proj])}
\* add_memory with arguments validateMemoryData would not pass: a content of
\* white space only, an importance above 10 and one below 1
UnfitCalls ==
  {Request("tools/call", "add_memory", [content |-> <<" ">>]),
   Request("tools/call", "add_memory", [content |-> <<"b">>, importance |-> 11]),
   Request("tools/call", "add_memory", [content |-> <<"b">>, importance |-> 0])}
\* A tool that does not exist, and the listing
OtherCalls ==
  {Request("tools/call", "forget_everything", [none |-> TRUE]),
   Request("tools/list", "none", [none |-> TRUE])}
\* What only the HTTP bridge can be sent: no tool name, another method
HttpOnlyCalls ==
  {Request("tools/call", "", [none |-> TRUE]),
   Request("resources/list", "none", [none |-> TRUE])}

Requests(w) ==
  CompleteCalls \cup IncompleteCalls \cup UnfitCalls \cup OtherCalls
    \cup (IF w = "http" THEN HttpOnlyCalls ELSE {})

\* The ids a request can use up
Growth(request) ==
  IF request.name \in {"add_memory", "add_todo", "extract_memories"} THEN 1
  ELSE IF request.name = "memory_bank_update" /\ Has(request.args, "memories")
  THEN Len(request.args.memories)
  ELSE 0

\* What the collaborators answer while the request is served
Envs(request) ==
  IF request.name = "add_memory"
  THEN {[NoEnv EXCEPT !.repoInfo = r] : r \in RepoInfos}
         \cup {[NoEnv EXCEPT !.enhanced = reply] : reply \in EnhanceReplies}
  ELSE IF request.name = "extract_memories"
  THEN {[NoEnv EXCEPT !.extracted = reply] : reply \in ExtractReplies}
  ELSE {NoEnv}

\* ------------------------------------------------------ server: lifecycle
\* await memoryStore.initialize(): it resolves, or it rejects (with or
\* without the connection opened) and the process does not go on
StartStore ==
  /\ phase = "down"
  /\ \/ initialized' = TRUE /\ phase' = "store-ready"
     \/ initialized' \in BOOLEAN /\ phase' = "failed"
  /\ UNCHANGED <<closed, config, dedup, rows, todos, nextId, clock, last, simVars, asyncVars,
                 wire, probe, pending, running, answered>>

\* try { await ollama.testConnection() } catch { warn }
ProbeEnhancer ==
  /\ phase = "store-ready"
  /\ probe' \in {"ok", "failed"}
  /\ phase' = "ready"
  /\ UNCHANGED <<storeVars, last, simVars, asyncVars, wire, pending, running, answered>>

\* A server that connects without waiting for its startup to get through
ListenAtOnce ==
  /\ phase # "serving"
  /\ phase' = "serving"
  /\ UNCHANGED <<storeVars, last, simVars, asyncVars, wire, probe, pending, running, answered>>

\* server.connect(transport) / app.listen(port)
Listen ==
  /\ phase = "ready"
  /\ phase' = "serving"
  /\ UNCHANGED <<storeVars, last, simVars, asyncVars, wire, probe, pending, running, answered>>

\* The ways in which serving the request can end, given the store as it is,
\* the time and what the collaborators answer
Runs(db, w, request) ==
  UNION {{[x |-> x, env |-> env, now |-> now] : x \in Serve(db, w, request, env, now)} :
           env \in Envs(request), now \in Nows}

\* A request arrives and its handler starts.  The server handles one request
\* at a time here, so the store stays as it is until the handler ends, and
\* the run the handler takes (the time it reads, what the collaborators
\* answer, how the engine orders ties) is one of those open on arrival.
Receive ==
  /\ phase = "serving"
  /\ pending = NoRequest
  /\ answered.request = NoRequest
  /\ \E request \in Requests(wire) :
       /\ nextId + Growth(request) <= MaxIds + 1
       /\ pending' = request
       /\ \E r \in Runs(Store, wire, request) :
            /\ r.x.h.nextId <= MaxIds + 1
            /\ running' = {r}
  /\ answered' = NoReply
  /\ UNCHANGED <<storeVars, last, simVars, asyncVars, wire, phase, probe>>

\* The handler of the request runs to its end: the store is as the handler
\* leaves it and the responses it sends are sent
Respond ==
  /\ pending # NoRequest
  /\ \E r \in running :
       LET sent == IF r.x.sends = <<>> THEN NoReply ELSE r.x.sends[1]
       IN  /\ rows' = r.x.h.rows
           /\ todos' = r.x.h.todos
           /\ nextId' = r.x.h.nextId
           /\ clock' = IF r.x.h.rows # rows \/ r.x.h.todos # todos THEN r.now ELSE clock
           /\ answered' =
                [request |-> pending, kind |-> sent.kind, error |-> sent.error,
                 code |-> sent.code, message |-> sent.message, text |-> sent.text,
                 tools |-> sent.tools, handler |-> r.x.h.handler,
                 sent |-> Len(r.x.sends), before |-> rows, todosBefore |-> todos,
                 nextIdBefore |-> nextId, now |-> r.now, env |-> r.env,
                 stored |-> r.x.h.stored, threw |-> r.x.h.threw,
                 cause |-> r.x.h.cause]
  /\ pending' = NoRequest
  /\ running' = {}
  /\ UNCHANGED <<initialized, closed, config, dedup, last, simVars, asyncVars, wire, phase, probe>>

\* The client takes the response it was sent
Take ==
  /\ pending = NoRequest
  /\ answered.request # NoRequest
  /\ answered' = NoReply
  /\ UNCHANGED <<storeVars, last, simVars, asyncVars, wire, phase, probe, pending, running>>

\* GET /health of the HTTP bridge
Health ==
  /\ wire = "http"
  /\ phase = "serving"
  /\ pending = NoRequest
  /\ answered' = [NoReply EXCEPT !.request = Request("GET /health", "none", [none |-> TRUE]),
                                 !.kind = "result",
                                 !.text = Text("healthy", 0, <<>>, Len(ListTools("http"))),
                                 !.sent = 1,
                                 !.before = rows, !.todosBefore = todos,
                                 !.nextIdBefore = nextId]
  /\ UNCHANGED <<storeVars, last, simVars, asyncVars, wire, phase, probe, pending, running>>

\* Either server process, about to be started with the default configuration
InitServer ==
  /\ initialized = FALSE
  /\ closed = FALSE
  /\ config = DefaultConfig
  /\ dedup = StoreDeduplicates(config.memoryStorage)
  /\ rows = <<>>
  /\ todos = <<>>
  /\ nextId = 1
  /\ clock = 0
  /\ last = NoCall
  /\ text1 = <<>>
  /\ text2 = <<>>
  /\ sim = NoSim
  /\ Idle
  /\ wire \in Transports
  /\ phase = "down"
  /\ probe = "none"
  /\ pending = NoRequest
  /\ running = {}
  /\ answered = NoReply

\* ------------------------------------------------------ repository scenarios
\* add_memory with and without a project and a context of the caller's
RepoCalls ==
  {Request("tools/call", "add_memory", args) :
     args \in {[content |-> <<"a">>],
               [content |-> <<"a">>, context |-> General],
               [content |-> <<"b">>, context |-> Db],
               [content |-> <<"A">>, project |-> Proj],
               [content |-> <<"É">>, project |-> Proj, context |-> Db, tags |-> <<"t">>]}}
\* What detectRepositoryInfo() can find: no repository, a repository with a
\* remote, a repository without one
RepoEnvs ==
  {[NoEnv EXCEPT !.repoInfo = r] :
     r \in RepoInfos \cup {[isGitRepo |-> TRUE, repoName |-> Undefined,
                            tags |-> <<"git-repo">>]}}

\* A server that is serving, its store empty
InitRepo ==
  /\ initialized = TRUE
  /\ closed = FALSE
  /\ config = DefaultConfig
  /\ dedup = StoreDeduplicates(config.memoryStorage)
  /\ rows = <<>>
  /\ nextId = 1
  /\ todos = <<>>
  /\ clock = 0
  /\ last = NoCall
  /\ text1 = <<>>
  /\ text2 = <<>>
  /\ sim = NoSim
  /\ Idle
  /\ wire \in Transports
  /\ phase = "serving"
  /\ probe = "ok"
  /\ pending = NoRequest
  /\ running = {}
  /\ answered = NoReply

\* tools/call add_memory arrives, the server's working directory being any
\* of the three
ReceiveAddMemory ==
  /\ phase = "serving"
  /\ pending = NoRequest
  /\ answered.request = NoRequest
  /\ nextId <= MaxIds
  /\ \E request \in RepoCalls, env \in RepoEnvs, now \in Nows :
       /\ pending' = request
       /\ \E x \in Serve(Store, wire, request, env, now) :
            running' = {[x |-> x, env |-> env, now |-> now]}
  /\ answered' = NoReply
  /\ UNCHANGED <<storeVars, last, simVars, asyncVars, wire, phase, probe>>

NextRepo ==
  \/ ReceiveAddMemory
  \/ Respond
  \/ Take

SpecRepo == InitRepo /\ [][NextRepo]_vars

\* ------------------------------------------------------ CSV export scenarios
\* Memories stored by add_memory whose content holds quotes or a line break
\* and whose context holds a line break
CsvContents == {<<"a">>, <<"a", " ", Quote, "b", Quote>>, <<"a", Newline, "b">>}
CsvContexts == {Db, <<"d", Newline, "b">>}
CsvStores ==
  UNION {[1..n -> {[content |-> c, context |-> x] : c \in CsvContents, x \in CsvContexts}] :
           n \in 0..MaxBatch}
CsvExports == {Request("tools/call", "export_memory_bank", [format |-> "csv"])}

\* A server that is serving, its store holding such memories
InitCsv ==
  /\ initialized = TRUE
  /\ closed = FALSE
  /\ config = DefaultConfig
  /\ dedup = StoreDeduplicates(config.memoryStorage)
  /\ \E store \in CsvStores :
       /\ rows = [i \in 1..Len(store) |->
                    NewMemoryRow(i, HandleAddMemoryData("stdio", store[i], store[i].content,
                                                        NoRepo, 0), 0)]
       /\ nextId = Len(store) + 1
  /\ todos = <<>>
  /\ clock = 0
  /\ last = NoCall
  /\ text1 = <<>>
  /\ text2 = <<>>
  /\ sim = NoSim
  /\ Idle
  /\ wire \in Transports
  /\ phase = "serving"
  /\ probe = "ok"
  /\ pending = NoRequest
  /\ running = {}
  /\ answered = NoReply

\* tools/call export_memory_bank {format: 'csv'} arrives
ReceiveCsvExport ==
  /\ phase = "serving"
  /\ pending = NoRequest
  /\ answered.request = NoRequest
  /\ \E request \in CsvExports :
       /\ pending' = request
       /\ \E r \in Runs(Store, wire, request) : running' = {r}
  /\ answered' = NoReply
  /\ UNCHANGED <<storeVars, last, simVars, asyncVars, wire, phase, probe>>

NextCsv ==
  \/ ReceiveCsvExport
  \/ Respond
  \/ Take

SpecCsv == InitCsv /\ [][NextCsv]_vars

NextServer ==
  \/ StartStore
  \/ ProbeEnhancer
  \/ Listen
  \/ Receive
  \/ Respond
  \/ Take
  \/ Health

SpecServer == InitServer /\ [][NextServer]_vars

\* A handler's awaits all settle: the store and the collaborators return or
\* fail, so a request that is being handled is answered
SpecServerFair == SpecServer /\ WF_vars(Respond)

\* ================================================================= claims
DedupThreshold == Frac(DedupThresholdNum, DedupThresholdDen)

\* The last call was op and got past the initialization check
Ran(op) == last.op = op /\ last.path # "not-initialized"

\* The context and importance addMemory gives the record of the last call
LastContext == IF Has(last.args, "context") THEN last.args.context ELSE General
LastImportance ==
  IF Has(last.args, "importance") THEN last.args.importance ELSE DefaultImportance

\* ---- C1 ----------------------------------------------------------------
\* C1: with deduplication enabled, an addMemory call whose content scores at
\* or above the dedup threshold against an existing memory of the same
\* context does not add a row, and afterwards that memory's stored importance
\* is max(its old importance, the new importance).  Stated here for the calls
\* in which the store's own duplicate lookup found such a memory (last.hit).
C1_MergeKeepsCountAndRaisesImportance ==
  (Ran("addMemory") /\ dedup /\ last.hit # NoRow)
    => /\ last.hit.context = LastContext
       /\ FracGE(CalculateTextSimilarity(last.args.content, last.hit.content),
                 DedupThreshold)
       /\ Len(rows) <= Len(last.before)
       /\ GetMemoryById(rows, last.hit.id) # NoRow
       /\ GetMemoryById(rows, last.hit.id).importance
            = Max(last.hit.importance, LastImportance)

\* ---- C2 ----------------------------------------------------------------
\* C2: when addMemory merges into an existing near-duplicate the call
\* succeeds and returns the merged record: the existing row's id, the new
\* content, importance max(old, new), and content and importance equal to
\* what getMemoryById(id) returns right afterwards.
C2_MergeReturnsMergedRecord ==
  (Ran("addMemory") /\ dedup /\ last.hit # NoRow)
    => /\ ~last.threw
       /\ last.ret.id = last.hit.id
       /\ last.ret.content = last.args.content
       /\ last.ret.importance = Max(last.hit.importance, LastImportance)
       /\ GetMemoryById(rows, last.ret.id).content = last.ret.content
       /\ GetMemoryById(rows, last.ret.id).importance = last.ret.importance

\* ---- C3 ----------------------------------------------------------------
NearDuplicates(r1, r2) ==
  /\ r1.context = r2.context
  /\ FracGT(CalculateTextSimilarity(r1.content, r2.content), DedupThreshold)
  /\ FracGT(CalculateTextSimilarity(r2.content, r1.content), DedupThreshold)

\* C3: with deduplication enabled, after any sequence of addMemory,
\* updateMemoryBank and deleteMemory calls there are never two distinct rows
\* of the same context whose contents are near-duplicates of each other.
C3_NoNearDuplicateRows ==
  dedup => \A i, j \in 1..Len(rows) : i # j => ~NearDuplicates(rows[i], rows[j])

\* ---- C4 ----------------------------------------------------------------
\* C4: updateMemoryBank is all-or-nothing: if inserting an element fails the
\* call raises and the rows are those before the call; if it returns, the
\* rows are those before the call followed by exactly one new row per
\* element, in order.
C4_BankAllOrNothing ==
  Ran("updateMemoryBank")
    => LET memories == last.args.memories
           n == Len(last.before)
       IN  /\ last.threw <=> \E i \in 1..Len(memories) : ~Has(memories[i], "content")
           /\ last.threw => rows = last.before
           /\ ~last.threw =>
                /\ Len(rows) = n + Len(memories)
                /\ SubSeq(rows, 1, n) = last.before
                /\ \A i \in 1..Len(memories) :
                     /\ rows[n + i].content = memories[i].content
                     /\ rows[n + i].project = last.args.project
                     /\ rows[n + i].id \notin RowIds(last.before)
                /\ Cardinality(RowIds(rows)) = Len(rows)

\* A batch whose first element was inserted before a later one failed
C4_Witness ==
  /\ Ran("updateMemoryBank") /\ last.threw
  /\ Len(last.args.memories) >= 2
  /\ Has(last.args.memories[1], "content")

\* ---- C5 ----------------------------------------------------------------
\* C5: after any sequence of add_memory, extract_memories and
\* memory_bank_update calls through either transport, every stored memory has
\* an importance in [1,10].
C5_StoredImportanceWithinRange ==
  \A i \in 1..Len(rows) : rows[i].importance \in MinImportance..MaxImportance

\* ---- C6 ----------------------------------------------------------------
\* C6: after any sequence of add_memory, extract_memories and
\* memory_bank_update calls through either transport, with any context
\* argument including the empty string or none, every stored memory has a
\* non-empty context.  (The claim adds that this context is "general" when
\* the caller supplied none; the part stated here is already refuted.)
C6_StoredContextNonEmpty ==
  \A i \in 1..Len(rows) : rows[i].context # <<>> /\ rows[i].context # Null

\* ---- C7 ----------------------------------------------------------------
LastThreshold ==
  IF Has(last.args.options, "threshold") THEN last.args.options.threshold
  ELSE Frac(DefaultSearchThresholdNum, DefaultSearchThresholdDen)
LastLimit ==
  IF Has(last.args.options, "limit") THEN last.args.options.limit
  ELSE DefaultSearchLimit

\* C7: every record searchMemories returns carries the query-coverage score
\* of (query, its content), that score is at least the threshold, and the
\* list is ordered by score, highest first.
C7_SearchScoredFilteredSorted ==
  Ran("searchMemories")
    => /\ \A i \in 1..Len(last.found) :
            /\ last.found[i].similarity
                 = CalculateTextSimilarity(last.args.query, last.found[i].content)
            /\ FracGE(last.found[i].similarity, LastThreshold)
            /\ \E r \in RowSet(rows) :
                 r.id = last.found[i].id /\ r.content = last.found[i].content
       /\ \A i, j \in 1..Len(last.found) :
            i < j => FracGE(last.found[i].similarity, last.found[j].similarity)

\* Two records returned with different scores, the lower one being the more
\* important (so the SQL order had it first)
C7_Witness ==
  /\ Ran("searchMemories") /\ Len(last.found) >= 2
  /\ FracGT(last.found[1].similarity, last.found[2].similarity)
  /\ last.found[2].importance > last.found[1].importance

\* ---- C8 ----------------------------------------------------------------
\* C8: searchMemories returns at most limit records, the content of each
\* contains at least one lowercased query token as a substring (read here
\* without regard to case), and with a context given each has that context.
C8_SearchWithinLimitTokenContext ==
  Ran("searchMemories")
    => /\ Len(last.found) <= LastLimit
       /\ \A i \in 1..Len(last.found) :
            LET tokens == SplitWhitespace(ToLowerCase(last.args.query))
            IN  /\ \E w \in 1..Len(tokens) :
                     Includes(ToLowerCase(last.found[i].content), tokens[w])
                /\ Truthy(TextOr(last.args.options, "context"))
                     => last.found[i].context = last.args.options.context

\* ---- C9 ----------------------------------------------------------------
\* C9: a text scores 1.0 against itself, and after addMemory of content c a
\* searchMemories call with threshold <= 1, a matching context or none, and
\* fewer rows than limit, for a query all of whose words occur in c, returns
\* that memory with score 1.0.
C9_FullCoverageScoresOne ==
  /\ (sim.applied /\ text1 = text2) => FracEQ(sim.coverage, Frac(1, 1))
  /\ Ran("searchMemories")
       => \A r \in RowSet(rows) :
            LET words == SplitWhitespace(last.args.query)
                context == TextOr(last.args.options, "context")
            IN  (/\ FracGE(Frac(1, 1), LastThreshold)
                 /\ Truthy(context) => r.context = context
                 /\ Len(rows) < LastLimit
                 /\ \A w \in 1..Len(words) : Includes(r.content, words[w]))
                  => \E i \in 1..Len(last.found) :
                       /\ last.found[i].id = r.id
                       /\ FracEQ(last.found[i].similarity, Frac(1, 1))

\* ---- C10 ---------------------------------------------------------------
\* C10: under both scoring policies, query coverage and Jaccard, the empty
\* query text scores 0 against every content text, and a score is always
\* produced (the division is by a positive count).
C10_EmptyQueryScoresZero ==
  sim.applied
    => /\ sim.coverage.den > 0 /\ sim.jaccard.den > 0
       /\ text1 = <<>>
            => /\ FracEQ(sim.coverage, Frac(0, 1))
               /\ FracEQ(sim.jaccard, Frac(0, 1))

\* ---- C11 ---------------------------------------------------------------
\* The number of places of list at which the record with this id stands
Times(list, id) == Cardinality({i \in 1..Len(list) : list[i].id = id})

\* C11: with deduplication disabled, every addMemory call of a valid record
\* appends one row of its own; a getMemories call without filter and with
\* limit >= the number of rows returns every row exactly once; and a
\* searchMemories call with limit >= the number of rows returns exactly once
\* every row whose content contains the tokens of the query and whose score
\* is at least the threshold.
C11_NoDedupEveryRecordReturnedOnce ==
  ~dedup =>
    /\ (Ran("addMemory") /\ last.path # "closed")
         => /\ ~last.threw
            /\ Len(rows) = Len(last.before) + 1
            /\ SubSeq(rows, 1, Len(last.before)) = last.before
            /\ rows[Len(rows)].id \notin RowIds(last.before)
            /\ rows[Len(rows)].content = last.args.content
    /\ (/\ Ran("getMemories") /\ ~last.threw
        /\ ~Has(last.args, "context") /\ ~Has(last.args, "since")
        /\ last.args.limit >= Len(rows))
         => \A r \in RowSet(rows) : Times(last.found, r.id) = 1
    /\ (/\ Ran("searchMemories") /\ ~last.threw
        /\ ~Has(last.args.options, "context")
        /\ LastLimit >= Len(rows))
         => \A r \in RowSet(rows) :
              LET words == SplitWhitespace(last.args.query)
              IN  (/\ \A w \in 1..Len(words) : Includes(r.content, words[w])
                   /\ FracGE(CalculateTextSimilarity(last.args.query, r.content),
                             LastThreshold))
                    => Times(last.found, r.id) = 1

\* ---- C12 ---------------------------------------------------------------
\* C12: every store operation called while the store has no connection fails
\* with 'Database not initialized' and leaves both tables as they were; none
\* returns normally.
C12_UninitializedCallsFail ==
  (~initialized /\ last.op # "none")
    => /\ last.threw
       /\ last.path = "not-initialized"
       /\ rows = last.before
       /\ todos = last.todosBefore

\* ---- C13 ---------------------------------------------------------------
\* The stdio server has answered a tools/call
DirectCalled ==
  /\ wire = "stdio"
  /\ answered.request # NoRequest
  /\ answered.request.method = "tools/call"

\* The store is as it was when the answered request arrived
StoreUntouched ==
  /\ rows = answered.before
  /\ todos = answered.todosBefore
  /\ nextId = answered.nextIdBefore

\* C13: on the direct transport a tools/call of an operation with required
\* arguments that omits one is answered with the error kind "invalid
\* parameters", no handler is invoked and the store is unchanged.
C13_MissingArgumentIsInvalidParams ==
  (/\ DirectCalled
   /\ answered.request.name \in DirectCases
   /\ ~(RequiredArgs(answered.request.name) \subseteq DOMAIN answered.request.args))
    => /\ answered.kind = "error"
       /\ answered.error = "InvalidParams"
       /\ answered.handler = "none"
       /\ StoreUntouched

\* ---- C14 ---------------------------------------------------------------
\* The names a server advertises
Advertised(w) == {ListTools(w)[i].name : i \in 1..Len(ListTools(w))}

\* A server has answered a tools/call that names a tool
Called ==
  /\ answered.request # NoRequest
  /\ answered.request.method = "tools/call"
  /\ answered.request.name # ""

\* The answered call carries the arguments the stdio server looks for
Complete == RequiredArgs(answered.request.name) \subseteq DOMAIN answered.request.args

\* C14: a tools/call naming a tool that is not advertised invokes no handler
\* and is answered "method not found" by the stdio server and with an
\* 'Unknown tool' error envelope by the HTTP bridge; a call of an advertised
\* name reaches the handler of that name; the HTTP bridge answers a method
\* other than tools/list and tools/call with an 'Invalid MCP method' error.
C14_UnknownToolIsMethodNotFound ==
  /\ (Called /\ answered.request.name \notin Advertised(wire))
       => /\ answered.handler = "none"
          /\ StoreUntouched
          /\ answered.kind = "error"
          /\ wire = "stdio" => answered.error = "MethodNotFound"
          /\ wire = "http" => answered.message.wording = "Unknown tool"
  /\ (Called /\ answered.request.name \in Advertised(wire) /\ (wire = "stdio" => Complete))
       => answered.handler = answered.request.name
  /\ (/\ wire = "http" /\ answered.request # NoRequest
      /\ answered.request.method \notin {"tools/list", "tools/call", "GET /health"})
       => /\ answered.kind = "error"
          /\ answered.message.wording = "Invalid MCP method"
          /\ answered.handler = "none"

\* ---- C15 ---------------------------------------------------------------
\* A handler that was called, or the store under it, threw
HandlerThrew ==
  /\ Called
  /\ answered.handler # "none"
  /\ answered.threw

\* A store that was never initialized, reached through a handler of server w
UninitializedIsWrapped(w) ==
  \A x \in Serve([Store EXCEPT !.initialized = FALSE], w,
                  Request("tools/call", "get_memories", [limit |-> 1]), NoEnv, clock) :
    /\ x.h.cause = "Database not initialized"
    /\ Len(x.sends) = 1
    /\ x.sends[1].kind = "error"
    /\ x.sends[1].message.cause = "Database not initialized"
    /\ x.sends[1].error = IF w = "http" THEN "http" ELSE "InternalError"
    /\ x.sends[1].code = IF w = "http" THEN HttpServerError ELSE 0

\* C15: when a handler or the store throws during a tools/call, the stdio
\* server answers with an InternalError whose message carries the original
\* message and the HTTP bridge with an error envelope of code 500 carrying
\* it; exactly that one response is sent, and it is not a result envelope.
C15_HandlerExceptionsAreWrapped ==
  HandlerThrew
    => /\ answered.sent = 1
       /\ answered.kind = "error"
       /\ answered.message.cause = answered.cause
       /\ answered.cause # "none"
       /\ wire = "stdio" =>
            /\ answered.error = "InternalError"
            /\ answered.message.wording = "Error executing tool"
            /\ answered.message.name = answered.request.name
       /\ wire = "http" =>
            /\ answered.code = HttpServerError
            /\ answered.message.wording = "Internal server error"
       /\ UninitializedIsWrapped(wire)

\* The store failed under a handler of the stdio server
C15_Witness ==
  /\ HandlerThrew
  /\ wire = "stdio"
  /\ answered.error = "InternalError"
  /\ answered.message.cause = answered.cause

\* ---- C16 ---------------------------------------------------------------
\* The answered call names a memory or a todo by an id that was not stored
\* when the call arrived
AbsentId ==
  /\ Called
  /\ Has(answered.request.args, "id")
  /\ \/ /\ answered.request.name = "delete_memory"
        /\ answered.request.args.id \notin RowIds(answered.before)
     \/ /\ answered.request.name \in {"update_todo", "delete_todo"}
        /\ answered.request.args.id \notin RowIds(answered.todosBefore)

\* The texts with which the handlers report an id that is not stored
NotFoundTexts ==
  {"Memory with ID \"${id}\" not found", "Memory with ID ${id} not found.",
   "Todo with ID ${id} not found."}

\* C16: delete_memory, delete_todo and update_todo called with an id that is
\* not stored return, on both servers, a result envelope whose text reports
\* not found, never an error, and leave the store as it was.
C16_AbsentIdIsANormalResult ==
  AbsentId
    => /\ answered.sent = 1
       /\ answered.kind = "result"
       /\ ~answered.threw
       /\ answered.text.template \in NotFoundTexts
       /\ answered.text.id = answered.request.args.id
       /\ StoreUntouched

\* update_todo of an id that no todo has, while the store holds a todo
C16_Witness ==
  /\ AbsentId
  /\ answered.request.name = "update_todo"
  /\ answered.todosBefore # <<>>
  /\ answered.kind = "result"
  /\ answered.text.template = "Todo with ID ${id} not found."

\* ---- C17 ---------------------------------------------------------------
\* The entry a listing has for a name
Entries(tools, name) == {tools[i] : i \in {j \in 1..Len(tools) : tools[j].name = name}}

\* Two listings advertise the same names, each name once, with the same
\* required arguments and the same enumerated value sets
SameCatalog(a, b) ==
  /\ {a[i].name : i \in 1..Len(a)} = {b[i].name : i \in 1..Len(b)}
  /\ Len(a) = Len(b)
  /\ \A i \in 1..Len(a) :
       /\ Cardinality(Entries(a, a[i].name)) = 1
       /\ \A e \in Entries(b, a[i].name) :
            /\ e.required = a[i].required
            /\ e.enums = a[i].enums

\* C17: the listing of the stdio server and tools/list of the HTTP bridge
\* advertise the same operation names with the same required arguments and
\* enumerated value sets, and the tools field of /health is the number of
\* advertised operations.
C17_SameCatalogOnBothTransports ==
  /\ (answered.request.method = "tools/list" /\ wire = "stdio")
       => /\ answered.kind = "result"
          /\ SameCatalog(answered.tools, ListTools("http"))
  /\ (answered.request.method = "tools/list" /\ wire = "http")
       => /\ answered.kind = "result"
          /\ SameCatalog(answered.tools, ListTools("stdio"))
  /\ answered.request.method = "GET /health"
       => /\ answered.text.count = Cardinality(Advertised("http"))
          /\ answered.text.count = Cardinality(Advertised("stdio"))

\* The HTTP bridge has answered tools/list with its thirteen tools
C17_Witness ==
  /\ wire = "http"
  /\ answered.request.method = "tools/list"
  /\ Len(answered.tools) = Cardinality(DirectCases)

\* ---- C18 ---------------------------------------------------------------
\* The store as the answered request found it
StoreBefore ==
  [Store EXCEPT !.rows = answered.before, !.todos = answered.todosBefore,
                !.nextId = answered.nextIdBefore]

\* The other server
Other(w) == IF w = "http" THEN "stdio" ELSE "http"

\* Two stored memories agree in a field: both lack it, or both have the value
SameField(a, b, f) == /\ Has(a, f) = Has(b, f)
                      /\ Has(a, f) => a[f] = b[f]

\* C18: an add_memory call made through one server, and the same call made
\* through the other on the same store, with the same configuration and
\* surroundings, store the same content, context, project, tags and
\* importance and send result envelopes of the same structure and text.
C18_AddMemorySameOnBothTransports ==
  (Called /\ answered.request.name = "add_memory" /\ Complete)
    => \E x \in Serve(StoreBefore, Other(wire), answered.request, answered.env,
                      answered.now) :
         /\ Len(x.sends) = answered.sent
         /\ x.sends[1].kind = answered.kind
         /\ x.sends[1].text = answered.text
         /\ \A f \in {"content", "context", "project", "tags", "importance"} :
              SameField(x.h.stored, answered.stored, f)

\* ---- C19 ---------------------------------------------------------------
\* A request is being handled or has been answered
Dispatched == pending # NoRequest \/ answered.request # NoRequest

\* The startup of either server, in the order of its statements
StartupOrder ==
  /\ phase \in {"down", "store-ready", "ready", "serving", "failed"}
  /\ phase \in {"store-ready", "ready", "serving"} => initialized
  /\ phase \in {"ready", "serving"} => probe \in {"ok", "failed"}
  /\ phase \in {"down", "store-ready", "failed"} => probe = "none"
  /\ Dispatched => phase = "serving"
  /\ answered.cause # "Database not initialized"

\* C19: on both servers no request is dispatched before the store's
\* initialize() has succeeded: the server goes from not started through
\* store initialized and ready to serving, a failed initialization is never
\* followed by serving, and a failed enhancer probe does not stop the startup.
C19_ServesOnlyAfterInitialize ==
  /\ []StartupOrder
  /\ [][/\ phase = "failed" => phase' = "failed"
        /\ phase' = "serving" => phase \in {"ready", "serving"}
        /\ (phase = "store-ready" /\ probe' = "failed") => phase' = "ready"]_vars

\* A tool call handled by a server whose enhancer probe had failed
C19_Witness ==
  /\ phase = "serving"
  /\ probe = "failed"
  /\ initialized
  /\ answered.handler # "none"
  /\ answered.kind = "result"

\* ---- C20 ---------------------------------------------------------------
\* What has been answered was answered with one response, a result envelope
\* or an error envelope
AnsweredOnce ==
  answered.request # NoRequest
    => /\ answered.sent = 1
       /\ answered.kind \in {"result", "error"}
       /\ answered.kind = "error" => answered.message # NoMessage
       /\ pending = NoRequest

\* C20: every tools/list or tools/call request received while serving is in
\* the end answered with exactly one response, a result envelope or an error
\* envelope, given that each store and collaborator call of its handler
\* returns or fails; none is dropped.
C20_EveryRequestIsAnsweredOnce ==
  /\ []AnsweredOnce
  /\ [][pending # NoRequest
          => \/ pending' = pending /\ answered' = answered
             \/ pending' = NoRequest /\ answered'.request = pending]_vars
  /\ (pending # NoRequest) ~> (pending = NoRequest /\ answered.sent = 1)

\* A tools/call whose handler threw has been answered with its error envelope
C20_Witness ==
  /\ answered.request.method = "tools/call"
  /\ answered.threw
  /\ answered.sent = 1
  /\ answered.kind = "error"
  /\ pending = NoRequest

\* ---- C21 ---------------------------------------------------------------
\* The rows a getMemories call with the arguments of the last call asks for
Asked(rs) ==
  {r \in RowSet(rs) :
     /\ Has(last.args, "context") => r.context = last.args.context
     /\ Has(last.args, "since") => r.timestamp >= last.args.since}

\* C21: getMemories returns only rows of the given context (when given)
\* stamped at or after since (when given), at most limit of them, in the
\* order of their creation, latest first, and leaves out a row that was
\* asked for only when it returns limit rows that were created no earlier.
C21_GetMemoriesFilteredNewestFirst ==
  (Ran("getMemories") /\ ~last.threw)
    => /\ \A i \in 1..Len(last.found) : last.found[i] \in Asked(rows)
       /\ Len(last.found) <= last.args.limit
       /\ \A i, j \in 1..Len(last.found) :
            i < j => last.found[i].created_at.t >= last.found[j].created_at.t
       /\ \A r \in Asked(rows) :
            Times(last.found, r.id) = 0
              => /\ Len(last.found) = last.args.limit
                 /\ \A i \in 1..Len(last.found) :
                      last.found[i].created_at.t >= r.created_at.t

\* ---- C22 ---------------------------------------------------------------
\* The last call was op, made on an open connection
RanOpen(op) == Ran(op) /\ last.path # "closed"

\* C22: deleteMemory(id) returns true exactly when a row with that id was
\* stored, removes that row and no other, and getMemoryById(id) is null
\* afterwards; for an id that is not stored it returns false without
\* throwing and leaves every row as it was.
C22_DeleteMemoryRemovesExactlyThatRow ==
  RanOpen("deleteMemory")
    => /\ ~last.threw
       /\ last.changed = (last.args.id \in RowIds(last.before))
       /\ rows = SelectSeq(last.before, LAMBDA r : r.id # last.args.id)
       /\ Len(rows) >= Len(last.before) - 1
       /\ GetMemoryById(rows, last.args.id) = NoRow
       /\ last.args.id \notin RowIds(last.before) => rows = last.before
       /\ todos = last.todosBefore

\* One of two stored memories was deleted; the other one is still there
C22_Witness ==
  /\ RanOpen("deleteMemory")
  /\ last.changed
  /\ Len(last.before) = 2
  /\ Len(rows) = 1
  /\ rows[1] \in RowSet(last.before)

\* ---- C23 ---------------------------------------------------------------
\* The columns of a todo that a patch can set
TodoFields == {"content", "status", "priority", "project", "context"}

\* C23: updateTodo(id, patch) on a stored todo changes the fields the patch
\* holds and no other, leaves id, createdAt and every other todo as they
\* were, sets updatedAt to a time strictly later than createdAt and returns
\* the updated todo; for an id that is not stored it returns null and
\* changes nothing.
C23_UpdateTodoPatchesExactly ==
  RanOpen("updateTodo")
    => /\ ~last.threw
       /\ rows = last.before
       /\ last.args.id \notin RowIds(last.todosBefore)
            => last.ret = NoRow /\ todos = last.todosBefore
       /\ last.args.id \in RowIds(last.todosBefore)
            => /\ Len(todos) = Len(last.todosBefore)
               /\ \A i \in 1..Len(todos) :
                    LET old == last.todosBefore[i]
                        new == todos[i]
                    IN  IF old.id # last.args.id THEN new = old
                        ELSE /\ new.id = old.id
                             /\ new.created_at = old.created_at
                             /\ \A f \in TodoFields \ DOMAIN last.args :
                                  new[f] = old[f]
                             /\ Has(last.args, "status")
                                  => new.status = last.args.status
                             /\ StampGT(new.updated_at, new.created_at)
                             /\ last.ret = new

\* ---- C24 ---------------------------------------------------------------
\* Todo t matches every filter that the arguments of a listTodos call hold
Matches(t, filters) ==
  \A f \in {"status", "priority", "project", "context"} :
    Has(filters, f) => t[f] = filters[f]

\* C24: addTodo stores one new todo, pending and of medium priority unless
\* the caller says otherwise; listTodos returns the stored todos that match
\* every filter given, each once, and no more of them than limit; so a todo
\* just added with project p is in listTodos({project: p}).
C24_AddTodoDefaultsAndListTodosExact ==
  /\ (RanOpen("addTodo") /\ ~last.threw)
       => /\ todos = Append(last.todosBefore, last.ret)
          /\ last.ret.id \notin RowIds(last.todosBefore)
          /\ last.ret.status = IF Has(last.args, "status") THEN last.args.status ELSE Pending
          /\ last.ret.priority =
               IF Has(last.args, "priority") THEN last.args.priority ELSE Medium
          /\ rows = last.before
          /\ Has(last.args, "project")
               => \A found \in ListTodos(todos, [project |-> last.args.project]) :
                    Times(found, last.ret.id) = 1
  /\ (RanOpen("listTodos") /\ ~last.threw)
       => LET matching == {t \in RowSet(todos) : Matches(t, last.args)}
          IN  /\ \A i \in 1..Len(last.found) : last.found[i] \in matching
              /\ \A t \in matching : Times(last.found, t.id) <= 1
              /\ Has(last.args, "limit") => Len(last.found) <= last.args.limit
              /\ Len(last.found) = IF Has(last.args, "limit")
                                   THEN Min(last.args.limit, Cardinality(matching))
                                   ELSE Cardinality(matching)

\* ---- C25 ---------------------------------------------------------------
\* A server has answered an add_memory call that carried a content
AddMemoryCalled ==
  /\ Called
  /\ answered.request.name = "add_memory"
  /\ Has(answered.request.args, "content")

\* The record the handler of the answered add_memory call handed to the store
AddMemoryData ==
  HandleAddMemoryData(wire, answered.request.args,
                      OllamaEnhanceMemory(answered.request.args.content,
                                          answered.env.enhanced),
                      answered.env.repoInfo, answered.now)

\* The duplicate lookup of that call found a stored memory to merge into
DuplicateFound ==
  dedup /\ \E e \in FindSimilarMemory(answered.before, AddMemoryData.content,
                                      AddMemoryData.context) : e # NoRow

ExtractCalled ==
  /\ Called
  /\ answered.request.name = "extract_memories"
  /\ Has(answered.request.args, "text")

\* The context the caller supplied, 'conversation' when none
CallerContext ==
  IF Has(answered.request.args, "context") THEN answered.request.args.context
  ELSE Conversation

\* The candidates of the answered call: those of the collaborator's reply
\* that carry a content, or, the collaborator failing, the first 200
\* characters of a text whose trimmed length is above 20
Candidates ==
  IF answered.env.extracted.ok
  THEN LET WithContent(m) == Has(m, "content") /\ Trim(m.content) # <<>>
           kept == SelectSeq(answered.env.extracted.memories, WithContent)
       IN  [i \in 1..Len(kept) |-> Put(kept[i], "content", Trim(kept[i].content))]
  ELSE IF Len(Trim(answered.request.args.text)) > FallbackMinLen
       THEN <<[content |-> SliceTo(answered.request.args.text, FallbackSliceLen)]>>
       ELSE <<>>

\* C26: extract_memories stores each candidate of the extraction collaborator
\* as a memory of its own, with source auto-extracted, an importance within
\* 1..10 and the candidate's context or else the caller's, and reports as
\* many stored memories as there are candidates; when the collaborator fails
\* it stores one memory holding the first 200 characters of the text (none
\* when the trimmed text has at most 20 characters) and does not fail.
C26_ExtractStoresEachCandidate ==
  ExtractCalled =>
    /\ answered.kind = "result"
    /\ ~answered.threw
    /\ answered.text.count = Len(Candidates)
    /\ Len(rows) = Len(answered.before) + Len(Candidates)
    /\ \A i \in 1..Len(answered.before) : rows[i] = answered.before[i]
    /\ \A i \in 1..Len(Candidates) :
         LET row == rows[Len(answered.before) + i]
             c == Candidates[i]
         IN  /\ row.content = c.content
             /\ row.source = AutoExtracted
             /\ row.importance \in MinImportance..MaxImportance
             /\ row.context = IF Has(c, "context") /\ c.context # <<>> THEN c.context
                              ELSE CallerContext


\* ------------------------------------------------------------------ C27
\* The answered call is an add_memory whose content is empty or white space
\* only or whose importance is outside 1..10
UnfitAddMemory ==
  /\ AddMemoryCalled
  /\ \/ Trim(answered.request.args.content) = <<>>
     \/ /\ Has(answered.request.args, "importance")
        /\ answered.request.args.importance \notin MinImportance..MaxImportance

\* C27: an add_memory call whose content is empty or white space only or
\* whose importance is outside 1..10 is answered "invalid parameters" by
\* either server, before any write, and the store is left as it was.
C27_UnfitAddMemoryIsRejected ==
  UnfitAddMemory =>
    /\ answered.kind = "error"
    /\ answered.error = "InvalidParams"
    /\ StoreUntouched


\* ------------------------------------------------------------------ C28
\* The stored memories the filter of the last export asks for
Exported ==
  {r \in RowSet(rows) :
     /\ Has(last.args, "project") => r.project = last.args.project
     /\ Has(last.args, "category") => r.category = last.args.category}

\* The record p of the parsed export is the stored memory r
SameMemory(p, r) ==
  /\ p.id = r.id
  /\ p.content = r.content
  /\ p.context = r.context
  /\ p.importance = r.importance
  /\ p.source = r.source
  /\ p.project = r.project
  /\ p.category = r.category
  /\ IF r.tags = Null THEN ~Has(p, "tags") ELSE Has(p, "tags") /\ p.tags = r.tags

CsvExported ==
  /\ Called
  /\ answered.request.name = "export_memory_bank"
  /\ Has(answered.request.args, "format")
  /\ answered.request.args.format = "csv"
  /\ answered.kind = "result"

\* The lines of the exported document
CsvLines == SplitLines(answered.text.body)

\* The line starts with the id of the row and its content in double quotes,
\* the quotes inside it doubled
LineOf(line, row) ==
  LET start == <<ToString(row.id), Comma, Quote>>
                 \o ReplaceAll(row.content, Quote, <<Quote, Quote>>) \o <<Quote, Comma>>
  IN  Len(line) >= Len(start) /\ SubSeq(line, 1, Len(start)) = start

\* C29: on both servers the CSV export has the header row as its first line
\* and after it exactly one line for each exported memory, the content in
\* double quotes with every double quote inside it doubled.
C29_CsvHeaderThenOneLinePerMemory ==
  CsvExported =>
    /\ CsvLines[1] = IF wire = "http" THEN HttpCsvHeader
                     ELSE Join([i \in 1..Len(CsvHeaders) |-> <<CsvHeaders[i]>>], <<Comma>>)
    /\ Len(CsvLines) = 1 + Len(rows)
    /\ \A r \in RowSet(rows) :
         Cardinality({i \in 2..Len(CsvLines) : LineOf(CsvLines[i], r)}) = 1


\* ------------------------------------------------------------------ C30
\* processing.deduplication of the configuration the process loaded
ProcessingDeduplication == config.processing.deduplication

\* The memory handed to the last addMemory repeats one stored before the call
RepeatsStored ==
  \E e \in FindSimilarMemory(last.before, last.args.content,
                             IF Has(last.args, "context") THEN last.args.context
                             ELSE General) : e # NoRow

\* C30: with processing.deduplication false addMemory never goes to merge
\* into an existing row and every addMemory that succeeds adds exactly one
\* row; with processing.deduplication true a memory that repeats a stored
\* one is merged into it and no row is added.
C30_ProcessingFlagGovernsDeduplication ==
  /\ (Ran("addMemory") /\ ~ProcessingDeduplication)
       => /\ last.path \notin {"merged", "merge-failed"}
          /\ ~last.threw => Len(rows) = Len(last.before) + 1
  /\ (Ran("addMemory") /\ ProcessingDeduplication /\ RepeatsStored)
       => /\ last.path = "merged"
          /\ Len(rows) = Len(last.before)


\* ------------------------------------------------------------------ C31
\* The stored memories of project p
OfProject(p) == {r \in RowSet(rows) : r.project = p}

\* C31: listProjects returns one entry for each project that stored memories
\* have, with totalMemories the number of memories of the project, categories
\* the categories of those memories that are not null (what listProjectFiles
\* returns for the project) and lastUpdated the latest updatedAt among them.
C31_ListProjectsAggregates ==
  RanOpen("listProjects") =>
    /\ {last.found[i].project : i \in 1..Len(last.found)}
         = {r.project : r \in RowSet(rows)} \ {Null}
    /\ \A i, j \in 1..Len(last.found) :
         i # j => last.found[i].project # last.found[j].project
    /\ \A i \in 1..Len(last.found) :
         LET entry == last.found[i]
         IN  /\ entry.totalMemories = Cardinality(OfProject(entry.project))
             /\ entry.categories = ListProjectFiles(rows, entry.project)
             /\ \E r \in OfProject(entry.project) : r.updated_at = entry.lastUpdated
             /\ \A r \in OfProject(entry.project) : r.updated_at.t <= entry.lastUpdated.t


\* ------------------------------------------------------------------ C32
\* The answered add_memory call stored a new row
AddMemoryStored ==
  /\ AddMemoryCalled
  /\ ~answered.threw
  /\ Len(rows) = Len(answered.before) + 1

\* The caller supplied a project, a context other than the default
SuppliedProject == Truthy(TextOr(answered.request.args, "project"))
SuppliedContext ==
  /\ Truthy(TextOr(answered.request.args, "context"))
  /\ answered.request.args.context # General

\* C32: the HTTP bridge never overwrites a project or a context other than
\* the default that the caller supplied, adds no repository tags to a memory
\* that came with both, and stores the memory data as it is when the working
\* directory is not a repository.
C32_RepoEnrichmentOnlyFillsGaps ==
  (AddMemoryStored /\ wire = "http") =>
    LET row == rows[Len(rows)]
        args == answered.request.args
    IN  /\ SuppliedProject => row.project = args.project
        /\ SuppliedContext => row.context = args.context
        /\ (SuppliedProject /\ SuppliedContext) => row.tags = ToSql(TextOr(args, "tags"))
        /\ ~answered.env.repoInfo.isGitRepo
             => /\ row.project = ToSql(TextOr(args, "project"))
                /\ row.context = OrElse(TextOr(args, "context"), General)
                /\ row.tags = ToSql(TextOr(args, "tags"))


\* ------------------------------------------------------------------ C33
\* The ids of a table, in rowid order
IdsOf(table) == [i \in 1..Len(table) |-> table[i].id]
UniqueIds(table) ==
  \A i, j \in 1..Len(table) : i # j => table[i].id # table[j].id

\* From before to after rows went or came, and no row that stayed has
\* another id: the ids that stayed are in their places, the others are new
IdsKept(before, after) ==
  LET kept == SelectSeq(IdsOf(before), LAMBDA id : id \in RowIds(after))
  IN  /\ Len(after) >= Len(kept)
      /\ SubSeq(IdsOf(after), 1, Len(kept)) = kept
      /\ \A i \in (Len(kept) + 1)..Len(after) : after[i].id \notin RowIds(before)

\* An insert of the last call met the id of a stored record
IdCollided ==
  \/ Ran("addTodo") /\ last.args.id \in RowIds(last.todosBefore)
  \/ /\ Ran("addMemory")
     /\ last.path \notin {"merged", "merge-failed"}
     /\ last.args.id \in RowIds(last.before)

\* C33: no two stored memories have the same id and no two stored todos
\* have; no call gives a stored record another id (a merge of addMemory and
\* updateTodo leave the ids of both tables as they are); an insert under the
\* id of a stored record fails and leaves the tables as they were.
C33_IdsUniqueAndImmutable ==
  /\ [](UniqueIds(rows) /\ UniqueIds(todos))
  /\ [](IdCollided => last.threw /\ rows = last.before /\ todos = last.todosBefore)
  /\ [][/\ IdsKept(rows, rows')
        /\ IdsKept(todos, todos')
        /\ (last'.op = "updateTodo" \/ last'.path \in {"merged", "merge-failed"})
             => IdsOf(rows') = IdsOf(rows) /\ IdsOf(todos') = IdsOf(todos)]_vars

C33_Witness ==
  /\ Ran("addTodo")
  /\ last.args.id \in RowIds(last.todosBefore)
  /\ last.threw
  /\ \E t \in RowSet(todos) : t.id = last.args.id /\ t.status = "completed"


\* ------------------------------------------------------------------ C34
\* A memory stored before the last addMemory has the very content of the new
\* one in another context, and none of the new one's context comes near it
OnlyInOtherContext ==
  /\ \E e \in RowSet(last.before) :
       e.content = last.args.content /\ e.context # LastContext
  /\ ~\E s \in RowSet(last.before) :
        /\ s.context = LastContext
        /\ FracGT(CalculateTextSimilarity(last.args.content, s.content), DedupThreshold)

Containing ==
  {r \in RowSet(last.before) :
     /\ r.context = LastContext
     /\ Includes(r.content, SliceTo(last.args.content, DedupPrefixLen))}

\* Those of them that came near the content of the last addMemory
NearContaining ==
  {r \in Containing :
     FracGT(CalculateTextSimilarity(last.args.content, r.content), DedupThreshold)}

\* r is one of the 5 created last / 5 others were created after r
AmongLastCreated(r) ==
  Cardinality({o \in Containing \ {r} : o.created_at.t >= r.created_at.t})
    < DedupCandidateLimit
BeyondLastCreated(r) ==
  Cardinality({o \in Containing \ {r} : o.created_at.t > r.created_at.t})
    >= DedupCandidateLimit

\* C35: the lookup of addMemory takes the 5 memories created last among
\* those of the context that contain the first 50 characters of the new
\* content: a near-duplicate among them is found, and when every
\* near-duplicate is beyond them addMemory inserts a new row.
C35_LookupTakesFiveCreatedLast ==
  (Ran("addMemory") /\ dedup /\ last.path # "closed" /\ last.path # "insert-failed") =>
    /\ (\E r \in NearContaining : AmongLastCreated(r)) => last.hit # NoRow
    /\ (\A r \in NearContaining : BeyondLastCreated(r)) =>
         /\ last.path = "inserted"
         /\ Len(rows) = Len(last.before) + 1
         /\ SubSeq(rows, 1, Len(last.before)) = last.before
         /\ rows[Len(rows)].content = last.args.content


\* Both calls are addMemory and both have settled
BothAddMemory ==
  \A i \in 1..Len(calls) : calls[i].op = "addMemory" /\ calls[i].pc = "done"

\* The memories written since the two calls began
WrittenSince == SubSeq(rows, Len(AsyncStore) + 1, Len(rows))

TwoRowsCreated ==
  /\ Len(WrittenSince) = 2
  /\ \A i \in 1..2 :
       /\ ~calls[i].threw
       /\ \E k \in 1..2 :
            /\ WrittenSince[k].id = calls[i].ret.id
            /\ WrittenSince[k].content = calls[i].args.content
            /\ WrittenSince[k].importance = calls[i].args.importance

OneRowMerged ==
  /\ Len(WrittenSince) = 1
  /\ \A i \in 1..2 : ~calls[i].threw /\ calls[i].ret.id = WrittenSince[1].id
  /\ WrittenSince[1].content = calls[1].args.content
  /\ WrittenSince[1].importance = Max(calls[1].args.importance, calls[2].args.importance)

\* C36: two addMemory calls with the same content and context that run at
\* once end with two rows created or with one row created and merged into,
\* and the rows stored before and the todos are as they were.
C36_ConcurrentAddMemoryOutcomes ==
  BothAddMemory =>
    /\ TwoRowsCreated \/ OneRowMerged
    /\ SubSeq(rows, 1, Len(AsyncStore)) = AsyncStore
    /\ todos = AsyncTodos


\* Call c has told its caller that its write is done
Acknowledged(c) == c.pc = "done" /\ ~c.threw

\* No call of the two takes away what c wrote
NoneDeletes(op, id) ==
  \A j \in 1..Len(calls) : ~(calls[j].op = op /\ calls[j].args.id = id)

\* The write call c was acknowledged for is in the tables
WriteStands(c) ==
  /\ (c.op = "addMemory" /\ NoneDeletes("deleteMemory", c.ret.id)) =>
       c.ret.id \in RowIds(rows)
  /\ (c.op = "addTodo" /\ NoneDeletes("deleteTodo", c.ret.id)) =>
       c.ret.id \in RowIds(todos)
  /\ (c.op = "updateTodo" /\ c.ret # NoRow /\ NoneDeletes("deleteTodo", c.args.id)) =>
       GetTodoById(todos, c.args.id) = c.ret
  /\ (c.op = "deleteMemory" /\ c.changed) => c.args.id \notin RowIds(rows)
  /\ (c.op = "deleteTodo" /\ c.changed) => c.args.id \notin RowIds(todos)

\* C37: whatever the order in which the statements of two requests reach
\* the shared connection, a write of addMemory, addTodo, updateTodo,
\* deleteMemory or deleteTodo that was acknowledged stays in the tables: the
\* rollback of an updateMemoryBank takes away the rows of its own batch only.
C37_AcknowledgedWritesStand ==
  \A i \in 1..Len(calls) : Acknowledged(calls[i]) => WriteStands(calls[i])


\* The two calls are updateTodo and deleteTodo of one todo
UpdateMeetsDelete(u, d) ==
  /\ calls[u].op = "updateTodo"
  /\ calls[d].op = "deleteTodo"
  /\ calls[u].args.id = calls[d].args.id

\* The todo of AsyncTodos with the patch of call c applied
Patched(c) ==
  LET t == GetTodoById(AsyncTodos, c.args.id)
  IN  [f \in DOMAIN t |->
         IF f = "updated_at" THEN IsoStamp(clock)
         ELSE IF Has(c.args.updates, f) THEN c.args.updates[f] ELSE t[f]]

\* C40: in every interleaving of updateTodo(id, patch) with deleteTodo(id),
\* the todo is gone from the moment the delete is done and stays gone, and
\* updateTodo ends without an error and returns the patched todo or null.
C40_UpdateTodoMeetsDeleteTodo ==
  \A u \in 1..Len(calls), d \in 1..Len(calls) :
    UpdateMeetsDelete(u, d) =>
      /\ calls[d].pc = "done" =>
           /\ calls[d].args.id \notin RowIds(todos)
           /\ ~calls[d].threw
      /\ calls[u].pc = "done" =>
           /\ ~calls[u].threw
           /\ calls[u].ret = NoRow \/ calls[u].ret = Patched(calls[u])
      /\ rows = AsyncStore
      /\ RowSet(todos) \subseteq {AsyncTodos[1], Patched(calls[u])}

\* The delete ran between the SELECT and the UPDATE of updateTodo, and both
\* calls are done
C40_Witness ==
  \E u \in 1..Len(calls), d \in 1..Len(calls) :
    /\ UpdateMeetsDelete(u, d)
    /\ calls[u].pc = "done" /\ calls[d].pc = "done"
    /\ calls[u].hit # NoRow
    /\ calls[u].ret = NoRow
    /\ calls[d].changed


\* The limit, context and threshold of the last searchMemories
SearchLimit ==
  IF Has(last.args.options, "limit") THEN last.args.options.limit ELSE DefaultSearchLimit
SearchThreshold ==
  IF Has(last.args.options, "threshold") THEN last.args.options.threshold
  ELSE Frac(DefaultSearchThresholdNum, DefaultSearchThresholdDen)

\* The stored memories that pass its context filter and its LIKE filter and
\* score at least the threshold
Scoring ==
  LET queryWords == SplitWhitespace(ToLowerCase(last.args.query))
      context == TextOr(last.args.options, "context")
  IN  {r \in RowSet(last.before) :
         /\ Truthy(context) => r.context = context
         /\ \E w \in 1..Len(queryWords) : Like(r.content, Wrapped(queryWords[w]))
         /\ FracGE(CalculateTextSimilarity(last.args.query, r.content), SearchThreshold)}

\* C38: when searchMemories leaves out a stored memory that passes the
\* filters and scores at least the threshold, it returns limit records and
\* each of them scores at least as high as the memory left out.
C38_SearchReturnsBestScoring ==
  (Ran("searchMemories") /\ ~last.threw) =>
    \A r \in Scoring :
      (\A k \in 1..Len(last.found) : last.found[k].id # r.id) =>
        /\ Len(last.found) = SearchLimit
        /\ \A k \in 1..Len(last.found) :
             FracGE(last.found[k].similarity,
                    CalculateTextSimilarity(last.args.query, r.content))


ReadOperations ==
  {"searchMemories", "getMemories", "getMemoryById", "getStats", "listProjects",
   "listProjectFiles", "exportMemoryBank", "listTodos", "getTodoById"}

\* C39: after searchMemories, getMemories, getMemoryById, getStats,
\* listProjects, listProjectFiles, exportMemoryBank, listTodos or getTodoById
\* the tables memories and todos hold the rows they held before the call,
\* every field as it was.
C39_ReadsLeaveTheStore ==
  last.op \in ReadOperations =>
    /\ rows = last.before
    /\ todos = last.todosBefore

\* A read that returned a stored memory, over a store with memories and todos
C39_Witness ==
  /\ last.op = "getMemoryById"
  /\ ~last.threw
  /\ last.ret # NoRow
  /\ rows # <<>>
  /\ todos # <<>>

====
